---------------------------- MODULE Spec2Model ----------------------------
(***************************************************************************)
(* Adaptive-concurrency task execution engine of parkour-to-the-moon:      *)
(* the token bucket limiter and the bounded worker pool                    *)
(* (src/utils/concurrency.ts), the backoff/retry engine                    *)
(* (src/utils/retry.ts) and the batch scheduler and concurrency controller *)
(* of MegaverseBuilder (src/orchestrator/MegaverseBuilder.ts).             *)
(*                                                                         *)
(* JavaScript runs one callback at a time: every action below is one       *)
(* synchronous stretch of code, from the resumption of an awaited promise  *)
(* (or a timer callback) to the next await.                                *)
(***************************************************************************)
EXTENDS Integers, Naturals, Sequences, FiniteSets, TLC

(***************************************************************************)
(* Bounds of the model.                                                    *)
(***************************************************************************)
MaxTasks == 3          \* longest task list handed to one pool run
MaxLimit == 2          \* largest concurrency level of one pool run

(***************************************************************************)
(* Arithmetic helpers.                                                     *)
(***************************************************************************)
Min(a, b) == IF a <= b THEN a ELSE b
Max(a, b) == IF a >= b THEN a ELSE b

RECURSIVE Pow(_, _)
Pow(b, e) == IF e = 0 THEN 1 ELSE b * Pow(b, e - 1)

\* Math.ceil(a / b) for a >= 0, b > 0
CeilDiv(a, b) == (a + b - 1) \div b

(***************************************************************************)
(* Worker pool and token bucket (src/utils/concurrency.ts).                *)
(*                                                                         *)
(* Token counts are real numbers in the code.  They are kept here exactly, *)
(* as integer multiples of 1/TokenUnit token: the refill rate of a pool    *)
(* of `limit` workers is limit * 0.5 / 1000 tokens per ms, and every       *)
(* adjustRateLimit multiplies it by 0.8 = 4/5; one pool run adjusts at     *)
(* most once per task, so TokenUnit = 2000 * 5^MaxTasks keeps every rate   *)
(* and every token count an integer.                                       *)
(***************************************************************************)
TokenUnit == 2000 * Pow(5, MaxTasks)

\* Milliseconds by which the clock advances between two callbacks.
ClockSteps == {1000}

\* Date.now() - lastRefill is only read through min(maxTokens, ...): beyond
\* the time that fills an empty bucket at the slowest rate the value read
\* is the same, so the elapsed time is kept up to that point.
ElapsedCap == CeilDiv(3 * 2000 * Pow(5, MaxTasks), Pow(4, MaxTasks))

\* What a task can do when it settles: fulfil with a value, reject with an
\* Error whose message has no "429", reject with an Error whose message
\* contains "429", or reject with null / undefined (Promise.reject()).
Outcomes == {"value", "error", "error429", "nullish"}

VARIABLES
  tasksLen,    \* tasks.length
  limit,       \* the concurrency level passed to the pool
  i,           \* the shared cursor (next unclaimed index, 0-based)
  results,     \* results[k]: EmptySlot or [status, of, kind]
  pc,          \* pc[w]: where runner w is
  current,     \* current[w]: the index runner w has claimed
  sleepLeft,   \* sleepLeft[w]: ms left of runner w's sleep(waitTime)
  tokens,      \* RateLimiter.tokens, in 1/TokenUnit
  maxTokens,   \* RateLimiter.maxTokens, in 1/TokenUnit
  refillRate,  \* RateLimiter.refillRate, in 1/TokenUnit per ms
  sinceRefill, \* Date.now() - RateLimiter.lastRefill, in ms
  poolState,   \* "running", "returned" (resolved) or "threw" (rejected)
  outcome,     \* outcome[k]: what task k did: "unsettled" or an Outcomes
  settleSeq,   \* the task indices in the order the tasks settled
  started,     \* the task indices whose task function has been invoked
  afterRefill, \* RateLimiter.tokens as the last refill() left it
  claimed,     \* claimed[k]: how often `current = i++` has yielded index k
  invoked      \* invoked[k]: how often tasks[k]() has been called

poolVars == <<tasksLen, limit, i, results, pc, current, sleepLeft, tokens,
              maxTokens, refillRate, sinceRefill, poolState, outcome,
              settleSeq, started, afterRefill, claimed, invoked>>

(***************************************************************************)
(* State of one retry(fn, options) call (src/utils/retry.ts).              *)
(***************************************************************************)
VARIABLES
  rOpts,       \* the options: retries, factor, minTimeout, maxTimeout, jitter,
               \* and which shouldRetry predicate the caller passed
  attempt,     \* the local variable attempt
  rpc,         \* "calling" (awaiting fn()), "sleeping", "returned", "threw"
  calls,       \* number of invocations of fn so far
  sleeps,      \* number of calls of sleep so far
  evals,       \* number of evaluations of shouldRetry so far
  failures,    \* number of invocations of fn that have failed
  lastErr,     \* the error of the last failed invocation (NoErr: none)
  firstRetryable, \* what shouldRetry answers for the first error
  thrown,      \* the error retry has rejected with (NoErr: none)
  returned,    \* the invocation whose value retry has returned (0: none)
  lastDelay,   \* the delay last computed by calculateDelay
  observed,    \* number of calls of the onRetry callback so far
  lastObserved \* the arguments of the last call of onRetry: the invocation
               \* whose error it was given, the attempt and the delay

retryVars == <<rOpts, attempt, rpc, calls, sleeps, evals, failures, lastErr,
               firstRetryable, thrown, returned, lastDelay, observed,
               lastObserved>>

(***************************************************************************)
(* State of a MegaverseBuilder and of one processBatches call              *)
(* (src/orchestrator/MegaverseBuilder.ts, in its two revisions).           *)
(***************************************************************************)
VARIABLES
  revision,    \* which revision of MegaverseBuilder.ts: "part_005", "part_004"
  concurrency, \* this.concurrency
  error429,    \* this.error429 (this.error429Count)
  timerLive,   \* the setInterval of the constructor has not been cleared
  allTasks,    \* tasks.length of the processBatches call
  bi,          \* the index of the first task of the current batch
  phase,       \* "idle", "inPool", "pausing", "done"
  batchLimit,  \* the limit of the pool run under way, 0 when there is none
  paramLimit,  \* the parameter `concurrency` of processBatches (part_004)
  batchResults,\* results: the task whose outcome each entry holds
  events,      \* the batch starts, batch ends and pauses so far, in order
  lastAdjust,  \* the last adjustConcurrency: trigger, the concurrency and
               \* the error count it read, and a bit flipped by each one
  throttledAt  \* the level the last batch ran at when some of its results
               \* were rejected for rate-limiting, else 0

builderVars == <<revision, concurrency, error429, timerLive, allTasks, bi,
                 phase, batchLimit, paramLimit, batchResults, events,
                 lastAdjust, throttledAt>>

(***************************************************************************)
(* State of one run of main (src/index.ts).                                *)
(***************************************************************************)
VARIABLES
  mainPc,      \* "none", "acting" (in the try block, awaiting the action),
               \* "returned", "rejected", "exited" (the process has ended)
  stopCalls,   \* how often builder.stopAdjusting() has been invoked
  exitMocked   \* process.exit is replaced by a function that throws, as
               \* the test suite does; otherwise it ends the process

mainVars == <<mainPc, stopCalls, exitMocked>>

(***************************************************************************)
(* State of one runWithProgress call: the progress logger and the calls of *)
(* the tasks it wraps.                                                     *)
(***************************************************************************)
VARIABLES
  logged,      \* logged[k]: how often the wrapper of task k has called log()
  attempts     \* attempts[k]: whether the remote call of task k was made:
               \* "none", "one", "several"

progressVars == <<logged, attempts>>

(***************************************************************************)
(* State of the reconciliation (syncWithGoal) against the remote service.  *)
(***************************************************************************)
VARIABLES
  goal,        \* the goal map: goal[c] is the token of cell (0, c)
  remote,      \* the map held by the remote service: remote[c] is a cell
  seen,        \* the current map as the last syncWithGoal fetched it
  todo,        \* the task list of the last syncWithGoal
  nextTask,    \* the position in todo of the task to run next
  reconPc,     \* "none", "fetching", "fixing", "synced"
  pass,        \* which call of syncWithGoal this is: 1 or 2
  allOk,       \* every remote call made so far has succeeded
  ran          \* how many tasks the first call ran

reconVars == <<goal, remote, seen, todo, nextTask, reconPc, pass, allOk, ran>>

(***************************************************************************)
(* One task the orchestrator hands to the scheduler.                       *)
(***************************************************************************)
VARIABLES
  wrapped      \* the task is () => retry(fn, this.makeRetryOpts()) (the
               \* tasks of toDeleteTasks); otherwise it calls the API client
               \* directly (createTodo of buildUniverse, todo of syncWithGoal)

taskVars == <<wrapped>>

(***************************************************************************)
(* What is recorded of the pace of admission: the time since the limiter   *)
(* of a pool run was constructed, and the refill rate the last             *)
(* adjustRateLimit of a processBatches call left.                          *)
(***************************************************************************)
VARIABLES
  clock,       \* Date.now() - (the time the RateLimiter was constructed), ms
  reducedTo    \* the refill rate the last adjustRateLimit set (0: none yet)

paceVars == <<clock, reducedTo>>

(***************************************************************************)
(* The tally of a builder: what has been added to its throttling-error     *)
(* counter and taken off its concurrency level since construction.         *)
(***************************************************************************)
VARIABLES
  added,       \* the sum of everything added to this.error429
  lowered,     \* the sum of all decreases of this.concurrency
  failed429    \* number of remote calls that failed with a 429 message

tallyVars == <<added, lowered, failed429>>

(***************************************************************************)
(* State of one cleanUniverse call; the remote map, the map fetched last  *)
(* and the task list are `remote`, `seen` and `todo`.                      *)
(***************************************************************************)
VARIABLES
  cleanPc,     \* "none", "fetching" (first getCurrentMap), "bulk"
               \* (runWithProgress), "verifying" (getCurrentMap of the loop),
               \* "sweeping" (runtWithConcurrencyLimit(leftovers, 1)),
               \* "returned"
  cleanAttempt,\* the loop variable attempt of the verification loop
  fetches,     \* number of getCurrentMap calls of the verification loop
  sweeps,      \* number of sweeps of leftovers
  said         \* the last line written to the console: "none", "deleting",
               \* "alreadyEmpty", "fullyBlue", "survived", "gaveUp"

cleanVars == <<cleanPc, cleanAttempt, fetches, sweeps, said>>

vars == <<poolVars, retryVars, builderVars, mainVars, progressVars, reconVars,
          taskVars, paceVars, tallyVars, cleanVars>>

\* What a step of one component leaves alone.
exceptPool == <<retryVars, builderVars, mainVars, progressVars, reconVars,
               taskVars, paceVars,
    tallyVars, cleanVars>>
exceptRetry == <<poolVars, builderVars, mainVars, progressVars, reconVars,
                taskVars, paceVars,
    tallyVars, cleanVars>>
exceptBuilder == <<poolVars, retryVars, mainVars, progressVars, reconVars,
                  taskVars, paceVars,
    tallyVars, cleanVars>>

\* A slot of the results array that has not been written.
EmptySlot == [status |-> "empty", of |-> -1, kind |-> "none"]

Runners == 1..limit
Indices == 0..(tasksLen - 1)

\* The mutable state one synchronous stretch of a runner reads and writes.
PoolRec == [i |-> i, results |-> results, pc |-> pc, current |-> current,
            sleepLeft |-> sleepLeft, tokens |-> tokens,
            refillRate |-> refillRate, sinceRefill |-> sinceRefill,
            afterRefill |-> afterRefill, claimed |-> claimed]

\* RateLimiter.refill
refill(ps) ==
  LET newTokens == ps.sinceRefill * ps.refillRate
  IN  [ps EXCEPT !.tokens = Min(maxTokens, ps.tokens + newTokens),
                 !.afterRefill = Min(maxTokens, ps.tokens + newTokens),
                 !.sinceRefill = 0]

\* A getToken that consumes a token at once whether or not one is there.
getTokenUnpaced(ps, w) ==
  LET r == refill(ps)
  IN  [r EXCEPT !.tokens = @ - TokenUnit, !.pc[w] = "acquired"]

\* RateLimiter.getToken up to its return or its await sleep(waitTime)
getToken(ps, w) ==
  LET r == refill(ps)
  IN  IF r.tokens >= TokenUnit
      THEN [r EXCEPT !.tokens = @ - TokenUnit, !.pc[w] = "acquired"]
      ELSE [r EXCEPT !.sleepLeft[w] = CeilDiv(TokenUnit - r.tokens, r.refillRate),
                     !.pc[w] = "sleeping"]

\* The refill rate of the limiter of a pool of l runners, l * 0.5 / 1000
\* tokens per ms, after n calls of adjustRateLimit.
RateAfter(l, n) == l * Pow(5, MaxTasks - n) * Pow(4, n)

\* An adjustRateLimit that leaves the rate alone.
adjustRateLimitNot(ps) == ps

\* RateLimiter.adjustRateLimit(decreaseFactor = 0.8)
adjustRateLimit(ps) == [ps EXCEPT !.refillRate = (@ * 4) \div 5]

\* A loop head whose cursor moves on by two at each claim.
loopHeadSkipping(ps, w) ==
  IF ps.i < tasksLen
  THEN getToken([ps EXCEPT !.current[w] = ps.i, !.i = @ + 2,
                           !.claimed[ps.i] = @ + 1], w)
  ELSE [ps EXCEPT !.pc[w] = "done"]

\* The head of the runner's loop: while (i < tasks.length) { current = i++;
\* await rateLimiter.getToken(); ...
loopHead(ps, w) ==
  IF ps.i < tasksLen
  THEN getToken([ps EXCEPT !.current[w] = ps.i, !.i = @ + 1,
                           !.claimed[ps.i] = @ + 1], w)
  ELSE [ps EXCEPT !.pc[w] = "done"]

\* new Array(limit).fill(0).map(async () => ...): runners 1..n each run to
\* their first await, one after the other.
RECURSIVE startRunners(_, _)
startRunners(ps, n) ==
  IF n = 0 THEN ps ELSE loopHead(startRunners(ps, n - 1), n)

\* A pool that appends results in completion order (results.push(...)).
resultSlotPush(w, ps) == Len(settleSeq)

\* The slot of results a settled task is written to: results[current]
resultSlot(w, ps) == ps.current[w]

\* results[current] = { status, value | reason }
record(ps, w, kind) ==
  [ps EXCEPT !.results[resultSlot(w, ps)] =
     [status |-> IF kind = "value" THEN "fulfilled" ELSE "rejected",
      of |-> ps.current[w], kind |-> kind]]

Assign(ps) ==
  /\ i' = ps.i
  /\ results' = ps.results
  /\ pc' = ps.pc
  /\ current' = ps.current
  /\ sleepLeft' = ps.sleepLeft
  /\ tokens' = ps.tokens
  /\ refillRate' = ps.refillRate
  /\ sinceRefill' = ps.sinceRefill
  /\ afterRefill' = ps.afterRefill
  /\ claimed' = ps.claimed

\* The state right after the call runtWithConcurrencyLimit(tasks, limit)
\* reaches await Promise.all(runners).
PoolStart(n, l) ==
  /\ tasksLen = n
  /\ limit = l
  /\ maxTokens = 2 * l * TokenUnit
  /\ poolState = "running"
  /\ outcome = [k \in 0..(n - 1) |-> "unsettled"]
  /\ settleSeq = <<>>
  /\ started = {}
  /\ invoked = [k \in 0..(n - 1) |-> 0]
  /\ LET ps0 == [i |-> 0,
                 results |-> [k \in 0..(n - 1) |-> EmptySlot],
                 pc |-> [w \in 1..l |-> "new"],
                 current |-> [w \in 1..l |-> -1],
                 sleepLeft |-> [w \in 1..l |-> 0],
                 tokens |-> 2 * l * TokenUnit,
                 refillRate |-> l * Pow(5, MaxTasks),
                 sinceRefill |-> 0,
                 afterRefill |-> 2 * l * TokenUnit,
                 claimed |-> [k \in 0..(n - 1) |-> 0]]
         ps == startRunners(ps0, l)
     IN  /\ i = ps.i
         /\ results = ps.results
         /\ pc = ps.pc
         /\ current = ps.current
         /\ sleepLeft = ps.sleepLeft
         /\ tokens = ps.tokens
         /\ refillRate = ps.refillRate
         /\ sinceRefill = ps.sinceRefill
         /\ afterRefill = ps.afterRefill
         /\ claimed = ps.claimed

InitPool == \E n \in 0..MaxTasks, l \in 1..MaxLimit : PoolStart(n, l)

\* The clock advances by dt ms while the runners wait.
Tick(dt) ==
  /\ \E w \in Runners : pc[w] \in {"sleeping", "acquired", "running"}
  /\ sinceRefill' = Min(sinceRefill + dt, ElapsedCap)
  /\ sleepLeft' = [w \in Runners |-> Max(0, sleepLeft[w] - dt)]
  /\ UNCHANGED <<tasksLen, limit, i, results, pc, current, tokens, maxTokens,
                 refillRate, poolState, outcome, settleSeq, started,
                 afterRefill, claimed, invoked>>

ClockTick == \E dt \in ClockSteps : Tick(dt)

\* sleep(waitTime) in getToken is over: this.tokens -= 1, getToken returns.
WakeUp(w) ==
  /\ pc[w] = "sleeping"
  /\ sleepLeft[w] = 0
  /\ tokens' = tokens - TokenUnit
  /\ pc' = [pc EXCEPT ![w] = "acquired"]
  /\ UNCHANGED <<tasksLen, limit, i, results, current, sleepLeft, maxTokens,
                 refillRate, sinceRefill, poolState, outcome, settleSeq, started,
                 afterRefill, claimed, invoked>>

\* A runner that invokes the task without awaiting it and goes straight on
\* to its next claim.
StartTaskNoAwait(w) ==
  /\ pc[w] = "acquired"
  /\ started' = started \cup {current[w]}
  /\ invoked' = [invoked EXCEPT ![current[w]] = @ + 1]
  /\ Assign(loopHead(PoolRec, w))
  /\ UNCHANGED <<tasksLen, limit, maxTokens, poolState, outcome, settleSeq>>

\* await rateLimiter.getToken() resumes: tasks[current]() is invoked.
StartTask(w) ==
  /\ pc[w] = "acquired"
  /\ pc' = [pc EXCEPT ![w] = "running"]
  /\ started' = started \cup {current[w]}
  /\ invoked' = [invoked EXCEPT ![current[w]] = @ + 1]
  /\ UNCHANGED <<tasksLen, limit, i, results, current, sleepLeft, tokens,
                 maxTokens, refillRate, sinceRefill, poolState, outcome, settleSeq,
                 afterRefill, claimed>>

\* The task of runner w settles.  The runner records the result; a rejection
\* reads error.message (a TypeError for null / undefined, which ends the
\* runner), adjusts the limiter for a "429" message; then the loop goes on
\* to the next claim.
Settle(w, kind) ==
  /\ pc[w] = "running"
  /\ outcome' = [outcome EXCEPT ![current[w]] = kind]
  /\ settleSeq' = Append(settleSeq, current[w])
  /\ LET rec == record(PoolRec, w, kind)
     IN  CASE kind = "value"   -> Assign(loopHead(rec, w))
           [] kind = "error"   -> Assign(loopHead(rec, w))
           [] kind = "error429" -> Assign(loopHead(adjustRateLimit(rec), w))
           [] kind = "nullish" -> Assign([rec EXCEPT !.pc[w] = "crashed"])
  /\ UNCHANGED <<tasksLen, limit, maxTokens, poolState, started, invoked>>

\* await Promise.all(runners) resolves: return results.
PoolReturn ==
  /\ poolState = "running"
  /\ \A w \in Runners : pc[w] = "done"
  /\ poolState' = "returned"
  /\ UNCHANGED <<tasksLen, limit, i, results, pc, current, sleepLeft, tokens,
                 maxTokens, refillRate, sinceRefill, outcome, settleSeq, started,
                 afterRefill, claimed, invoked>>

\* await Promise.all(runners) rejects as soon as one runner has rejected; the
\* other runners are not cancelled.
PoolThrow ==
  /\ poolState = "running"
  /\ \E w \in Runners : pc[w] = "crashed"
  /\ poolState' = "threw"
  /\ UNCHANGED <<tasksLen, limit, i, results, pc, current, sleepLeft, tokens,
                 maxTokens, refillRate, sinceRefill, outcome, settleSeq, started,
                 afterRefill, claimed, invoked>>

NextPool ==
  \/ ClockTick /\ UNCHANGED exceptPool
  \/ \E w \in Runners : WakeUp(w) /\ UNCHANGED exceptPool
  \/ \E w \in Runners : StartTask(w) /\ UNCHANGED exceptPool
  \/ \E w \in Runners, kind \in Outcomes :
       Settle(w, kind) /\ UNCHANGED exceptPool
  \/ PoolReturn /\ UNCHANGED exceptPool
  \/ PoolThrow /\ UNCHANGED exceptPool

(***************************************************************************)
(* The limiter under a longer pool run: runs of up to MaxAcquires tasks    *)
(* that all fulfil, so that the bucket is drained and several runners wait *)
(* for a token at once.                                                    *)
(***************************************************************************)
MaxAcquires == 7

InitLimiter == \E n \in 0..MaxAcquires, l \in 1..MaxLimit : PoolStart(n, l)

\* The time since the limiter's construction is followed up to ClockCap ms:
\* by then the slowest limiter (0.5 token per second) has refilled a token
\* for every task of the longest run.
ClockCap == 2000 * MaxAcquires

\* The clock advances, the time since the limiter's construction with it.
LimiterTick ==
  \E dt \in ClockSteps :
    /\ Tick(dt)
    /\ clock' = Min(clock + dt, ClockCap)
    /\ UNCHANGED reducedTo

exceptLimiter == <<retryVars, builderVars, mainVars, progressVars, reconVars,
                  taskVars, tallyVars, cleanVars>>

NextLimiter ==
  \/ LimiterTick /\ UNCHANGED exceptLimiter
  \/ \E w \in Runners : WakeUp(w) /\ UNCHANGED exceptPool
  \/ \E w \in Runners : StartTask(w) /\ UNCHANGED exceptPool
  \/ \E w \in Runners :
       Settle(w, "value") /\ UNCHANGED exceptPool
  \/ PoolReturn /\ UNCHANGED exceptPool

(***************************************************************************)
(* Backoff / retry engine (src/utils/retry.ts).                            *)
(***************************************************************************)
\* An error thrown by fn.  `id` is the invocation that threw it (errors are
\* objects: the error retry rethrows is the very object fn threw).  `status`
\* and `body` are what its message is built from, as MegaverseApiClient
\* builds it: "<resource>: POST failed (<status>): <body>".  `hdr` is what
\* err.headers.get("retry-after") does.
Statuses == {400, 429, 500}
Bodies == {"plain", "mentions429"}

\* err.headers / err.headers.get("retry-after"):
\*   absent   err.headers is undefined, or has no get
\*   null     get returns null (no such header)
\*   seconds  get returns the digit string `digits`
\*   date     get returns an HTTP-date `ms` milliseconds after Date.now()
\*   invalid  get returns a string that is neither digits nor a date
\*   throws   get throws
Hdr(kind, digits, ms) == [kind |-> kind, digits |-> digits, ms |-> ms]
Headers ==
  {Hdr("absent", <<>>, 0), Hdr("null", <<>>, 0), Hdr("invalid", <<>>, 0),
   Hdr("throws", <<>>, 0)}
  \cup {Hdr("seconds", d, 0) : d \in {<<0>>, <<5>>, <<0, 5>>, <<6, 0>>}}
  \cup {Hdr("date", <<>>, ms) : ms \in {-1000, 3000}}

NoErr == [id |-> 0, status |-> 0, body |-> "plain", hdr |-> Hdr("absent", <<>>, 0)]

\* err.message.includes("429") / /429/.test(err.message)
Includes429(err) == err.status = 429 \/ err.body = "mentions429"

\* The errors invocation `id` of fn can throw.  The headers are read for
\* messages with "429" only, so the other errors come with two of them.
ErrorsOf(id) ==
  LET all == {[id |-> id, status |-> st, body |-> b, hdr |-> h] :
                st \in Statuses, b \in Bodies, h \in Headers}
  IN  {e \in all : Includes429(e) \/ e.hdr \in {Hdr("absent", <<>>, 0),
                                                 Hdr("seconds", <<5>>, 0)}}

\* /5\d{2}/.test(err.message)
Includes5xx(err) == err.status \in 500..599

\* new Date(s).getTime() of an unparsable string, and everything computed
\* from it: Math.max(0, NaN), Math.min(NaN, x), Math.floor(NaN * x).
NaN == 0 - 1

\* parseInt(digits, 10)
RECURSIVE parseInt(_)
parseInt(d) ==
  IF d = <<>> THEN 0
  ELSE 10 * parseInt(SubSeq(d, 1, Len(d) - 1)) + d[Len(d)]

\* A header reader that takes the seconds of Retry-After for milliseconds.
getDelayFromHeadersUnscaled(err, defaultDelay) ==
  CASE err.hdr.kind = "seconds" -> parseInt(err.hdr.digits)
    [] err.hdr.kind = "date"    -> Max(0, err.hdr.ms)
    [] err.hdr.kind = "invalid" -> NaN
    [] OTHER                    -> defaultDelay

\* getDelayFromHeaders(err, defaultDelay)
getDelayFromHeaders(err, defaultDelay) ==
  CASE err.hdr.kind = "seconds" -> parseInt(err.hdr.digits) * 1000
    [] err.hdr.kind = "date"    -> Max(0, err.hdr.ms)
    [] err.hdr.kind = "invalid" -> NaN
    [] OTHER                    -> defaultDelay

\* Math.min(a, b), where a may be NaN
MathMin(a, b) == IF a = NaN THEN NaN ELSE Min(a, b)

\* Math.random() is r / RandomSteps, r in 0 .. RandomSteps - 1
RandomSteps == 4
Randoms == 0..(RandomSteps - 1)

\* Math.floor(delay * (0.7 + Math.random() * 0.6))
jittered(delay, r) ==
  IF delay = NaN THEN NaN
  ELSE (delay * (7 * RandomSteps + 6 * r)) \div (10 * RandomSteps)

\* A backoff that is not capped.
baseDelayUncapped(n, opts) == opts.minTimeout * Pow(opts.factor, n - 1)

\* minTimeout * Math.pow(factor, attempt - 1), capped at maxTimeout
baseDelay(n, opts) ==
  Min(opts.minTimeout * Pow(opts.factor, n - 1), opts.maxTimeout)

\* calculateDelay(attempt, err, options); r is the draw of Math.random()
calculateDelay(n, err, opts, r) ==
  LET delay == baseDelay(n, opts)
      rated == IF Includes429(err)
               THEN MathMin(getDelayFromHeaders(err, delay * 2), opts.maxTimeout)
               ELSE delay
  IN  IF opts.jitter THEN jittered(rated, r) ELSE rated

\* The predicates a caller passes as shouldRetry: the default () => true, a
\* predicate that refuses everything, and the builder's (429 or 5xx).
Policies == {"always", "never", "status"}

shouldRetry(policy, err) ==
  CASE policy = "always" -> TRUE
    [] policy = "never"  -> FALSE
    [] policy = "status" -> Includes429(err) \/ Includes5xx(err)

MaxRetries == 3

RetryOptions ==
  [retries : 0..MaxRetries, factor : {1, 2}, minTimeout : {1000},
   maxTimeout : {3000, 30000}, jitter : BOOLEAN, policy : Policies,
   onRetry : BOOLEAN]

\* An onRetry that is told the number of retries made before this one.
onRetryZeroBased(err, n, delay) == [of |-> err.id, attempt |-> n - 1, delay |-> delay]

\* onRetry(err, attempt, delay): what the callback is called with; the
\* error is named by the invocation of fn that threw it.
onRetry(err, n, delay) == [of |-> err.id, attempt |-> n, delay |-> delay]

\* onRetry has not been called.
NotObserved == [of |-> 0, attempt |-> 0, delay |-> 0]

\* No retry call is in progress.
NoRetry ==
  /\ rOpts = [retries |-> 0, factor |-> 1, minTimeout |-> 1000,
              maxTimeout |-> 4000, jitter |-> FALSE, policy |-> "always",
              onRetry |-> FALSE]
  /\ attempt = 0 /\ rpc = "idle" /\ calls = 0 /\ sleeps = 0 /\ evals = 0
  /\ failures = 0 /\ lastErr = NoErr /\ firstRetryable = TRUE
  /\ thrown = NoErr /\ returned = 0 /\ lastDelay = 0
  /\ observed = 0 /\ lastObserved = NotObserved

\* retry(fn, options) has been called: attempt = 0 and the first fn() is
\* awaited.
RetryStart(opts) ==
  /\ rOpts = opts
  /\ attempt = 0
  /\ rpc = "calling"
  /\ calls = 1
  /\ sleeps = 0 /\ evals = 0 /\ failures = 0
  /\ lastErr = NoErr /\ firstRetryable = TRUE
  /\ thrown = NoErr /\ returned = 0 /\ lastDelay = 0
  /\ observed = 0 /\ lastObserved = NotObserved

InitRetry == \E opts \in RetryOptions : RetryStart(opts)

\* A loop that gives up one attempt early.
exhaustedEarly(n, retries) == n >= retries

\* A loop that allows one retry too many.
exhaustedLate(n, retries) == n > retries + 1

\* attempt > retries
exhausted(n, retries) == n > retries

\* A retry that ignores the answer of shouldRetry.
givesUpNever(policy, err) == FALSE

\* !shouldRetry(err)
givesUp(policy, err) == ~shouldRetry(policy, err)

\* return await fn(): fn fulfils.
FnFulfils ==
  /\ rpc = "calling"
  /\ rpc' = "returned"
  /\ returned' = calls
  /\ UNCHANGED <<rOpts, attempt, calls, sleeps, evals, failures, lastErr,
                 firstRetryable, thrown, lastDelay, observed, lastObserved>>

\* fn rejects with err: the catch block, up to throw err or await sleep(delay).
\* shouldRetry is evaluated only when attempt > retries is false; onRetry,
\* if the options hold one, is called with the delay that is then slept.
FnRejects(err, r) ==
  /\ rpc = "calling"
  /\ attempt' = attempt + 1
  /\ failures' = failures + 1
  /\ lastErr' = err
  /\ firstRetryable' = IF failures = 0 THEN shouldRetry(rOpts.policy, err)
                       ELSE firstRetryable
  /\ IF exhausted(attempt + 1, rOpts.retries)
     THEN /\ rpc' = "threw"
          /\ thrown' = err
          /\ UNCHANGED <<evals, sleeps, lastDelay, observed, lastObserved>>
     ELSE /\ evals' = evals + 1
          /\ IF givesUp(rOpts.policy, err)
             THEN /\ rpc' = "threw"
                  /\ thrown' = err
                  /\ UNCHANGED <<sleeps, lastDelay, observed, lastObserved>>
             ELSE /\ lastDelay' = calculateDelay(attempt + 1, err, rOpts, r)
                  /\ IF rOpts.onRetry
                     THEN /\ observed' = observed + 1
                          /\ lastObserved' =
                               onRetry(err, attempt + 1,
                                       calculateDelay(attempt + 1, err, rOpts, r))
                     ELSE UNCHANGED <<observed, lastObserved>>
                  /\ sleeps' = sleeps + 1
                  /\ rpc' = "sleeping"
                  /\ UNCHANGED thrown
  /\ UNCHANGED <<rOpts, calls, returned>>

\* await sleep(delay) resumes: the loop invokes fn again.
SleepOver ==
  /\ rpc = "sleeping"
  /\ rpc' = "calling"
  /\ calls' = calls + 1
  /\ UNCHANGED <<rOpts, attempt, sleeps, evals, failures, lastErr,
                 firstRetryable, thrown, returned, lastDelay, observed,
                 lastObserved>>

NextRetry ==
  \/ FnFulfils /\ UNCHANGED exceptRetry
  \/ \E err \in ErrorsOf(calls) :
       \* Math.random() is drawn for jitter only
       \E r \in (IF rOpts.jitter THEN Randoms ELSE {0}) :
         FnRejects(err, r) /\ UNCHANGED exceptRetry
  \/ SleepOver /\ UNCHANGED exceptRetry

\* No pool run is in progress.
NoPool ==
  /\ tasksLen = 0 /\ limit = 1 /\ i = 0
  /\ results = <<>> /\ outcome = <<>>
  /\ pc = [w \in {1} |-> "done"]
  /\ current = [w \in {1} |-> 0 - 1]
  /\ sleepLeft = [w \in {1} |-> 0]
  /\ tokens = 0 /\ maxTokens = 0 /\ refillRate = 0 /\ sinceRefill = 0
  /\ poolState = "idle" /\ settleSeq = <<>> /\ started = {}
  /\ afterRefill = 0 /\ claimed = <<>> /\ invoked = <<>>

(***************************************************************************)
(* Batch scheduler and concurrency controller (MegaverseBuilder).          *)
(*                                                                         *)
(* A batch's pool run is one await of processBatches: it starts when the   *)
(* batch is handed to runtWithConcurrencyLimit and ends when that call     *)
(* returns its results, one per task of the batch and in the batch's       *)
(* order.  While it is awaited the timer may fire and the shouldRetry      *)
(* predicates of the running tasks may record 429s.                        *)
(***************************************************************************)
MaxAllTasks == 45      \* longest task list handed to processBatches
MaxRecorded == 2       \* most 429s recorded by predicates between two adjustments
MaxRateErrors == 3     \* most results of one batch rejected for rate-limiting

batchSize == 20
initialConcurrency == 3

Revisions == {"part_005", "part_004"}

\* The lengths of the task lists: every number of full batches up to the
\* bound, followed by no task, by one, by a quarter batch or by one task
\* short of a batch.
TaskCounts ==
  {n \in 0..MaxAllTasks : n % batchSize \in {0, 1, batchSize \div 4, batchSize - 1}}

maxConcurrency == IF revision = "part_005" THEN 8 ELSE 10

\* An adjustment that never raises the level.
adjustedNeverUp(c, e) == IF e = 0 THEN c ELSE Max(1, c - e)

\* An adjustment that lowers the level by one whatever the error count.
adjustedByOne(c, e) ==
  IF e = 0 THEN Min(c + 1, maxConcurrency) ELSE Max(1, c - 1)

\* An adjustment without the floor of one worker.
adjustedNoFloor(c, e) ==
  IF e = 0 THEN Min(c + 1, maxConcurrency) ELSE c - e

\* The concurrency adjustConcurrency sets, from the level c and the error
\* count e it reads.
adjusted(c, e) ==
  IF e = 0
  THEN Min(c + 1, maxConcurrency)
  ELSE IF revision = "part_005"
       THEN Max(1, c - e)
       ELSE LET reduction == Min(e, c - 1) IN Max(1, c - reduction)

\* An adjustment that leaves the counter as it is.
AdjustConcurrencyKeeping(trigger, e) ==
  /\ concurrency' = adjusted(concurrency, e)
  /\ error429' = error429
  /\ lastAdjust' = [trigger |-> trigger, c |-> concurrency, e |-> e,
                    flip |-> 1 - lastAdjust.flip]

\* adjustConcurrency(), reading an error count of e; the counter is reset.
AdjustConcurrency(trigger, e) ==
  /\ concurrency' = adjusted(concurrency, e)
  /\ error429' = 0
  /\ lastAdjust' = [trigger |-> trigger, c |-> concurrency, e |-> e,
                    flip |-> 1 - lastAdjust.flip]

\* A pause follows the batch that starts at index n when a further batch
\* remains, and a pause that also follows the last full batch.
pauseFollowsAlways(n, len) == n + batchSize <= len

\* if (i + this.batchSize < tasks.length) await sleep(this.batchDelayMs)
pauseFollows(n, len) == n + batchSize < len

\* What the pool returns for the batch of len tasks that starts at index
\* n: one settled result per task of the batch, in the batch's order; each
\* is named by the index its task has in the whole list.
poolResults(n, len) == [k \in 1..len |-> n + k - 1]

\* The results of a batch put in front of those of the earlier batches.
pushResultsFront(res, r) == r \o res

\* results.push(...r)
pushResults(res, r) == res \o r

Event(ev, from, len) == [ev |-> ev, from |-> from, len |-> len]

\* tasks.slice(i, i + this.batchSize).length
sliceLen(n, len) == Min(n + batchSize, len) - n

\* The level a batch is run at: this.concurrency read at the call of
\* runtWithConcurrencyLimit (part_005), the parameter of processBatches
\* (part_004).
levelForBatch ==
  IF revision = "part_005" THEN concurrency ELSE paramLimit

\* The state after construction: concurrency 3, no error counted, the
\* timer started; processBatches not yet called.
InitBuilder ==
  /\ revision \in Revisions
  /\ concurrency = initialConcurrency
  /\ error429 = 0
  /\ timerLive = TRUE
  /\ allTasks \in TaskCounts
  /\ bi = 0
  /\ phase = "idle"
  /\ batchLimit = 0
  /\ paramLimit = 0
  /\ batchResults = <<>>
  /\ events = <<>>
  /\ lastAdjust = [trigger |-> "none", c |-> 0, e |-> 0, flip |-> 0]
  /\ throttledAt = 0

\* The interval timer fires: () => this.adjustConcurrency()
TimerTick ==
  /\ timerLive
  /\ AdjustConcurrency("tick", error429)
  /\ UNCHANGED <<revision, timerLive, allTasks, bi, phase, batchLimit,
                 paramLimit, batchResults, events, throttledAt>>

\* stopAdjusting(): clearInterval(this.adjustTimer)
StopAdjusting ==
  /\ timerLive
  /\ timerLive' = FALSE
  /\ UNCHANGED <<revision, concurrency, error429, allTasks, bi, phase,
                 batchLimit, paramLimit, batchResults, events, lastAdjust,
                 throttledAt>>

\* The shouldRetry predicate of makeRetryOpts sees a 429 in a running task:
\* this.error429++
Record429 ==
  /\ phase = "inPool"
  /\ error429 < MaxRecorded
  /\ error429' = error429 + 1
  /\ UNCHANGED <<revision, concurrency, timerLive, allTasks, bi, phase,
                 batchLimit, paramLimit, batchResults, events, lastAdjust,
                 throttledAt>>

\* processBatches(tasks) is called: with no task it returns at once, else
\* the first batch is handed to the pool.
CallProcessBatches ==
  /\ phase = "idle"
  /\ paramLimit' = IF revision = "part_004" THEN concurrency ELSE 0
  /\ bi' = 0
  /\ IF allTasks = 0
     THEN /\ phase' = "done"
          /\ UNCHANGED <<batchLimit, events>>
     ELSE /\ phase' = "inPool"
          /\ batchLimit' = concurrency
          /\ events' = Append(events, Event("start", 0, sliceLen(0, allTasks)))
  /\ UNCHANGED <<revision, concurrency, error429, timerLive, allTasks,
                 batchResults, lastAdjust, throttledAt>>

\* The pool run of the current batch returns, rateErrors of its results
\* rejected with a 429 message: the results are appended, the 429s tallied
\* and adjusted for; then the pause starts, or the loop ends.
PoolReturns(rateErrors) ==
  /\ phase = "inPool"
  /\ rateErrors <= sliceLen(bi, allTasks)
  /\ LET len == sliceLen(bi, allTasks)
         ended == Append(events, Event("end", bi, len))
     IN  /\ batchResults' = pushResults(batchResults, poolResults(bi, len))
         /\ IF rateErrors > 0
            THEN AdjustConcurrency("immediate", error429 + rateErrors)
            ELSE UNCHANGED <<concurrency, error429, lastAdjust>>
         /\ IF pauseFollows(bi, allTasks)
            THEN /\ phase' = "pausing"
                 /\ events' = Append(ended, Event("pause", 0, 0))
                 /\ bi' = bi
            ELSE /\ phase' = "done"
                 /\ events' = ended
                 /\ bi' = bi + batchSize
  /\ batchLimit' = 0
  /\ throttledAt' = IF rateErrors > 0 THEN batchLimit ELSE 0
  /\ UNCHANGED <<revision, timerLive, allTasks, paramLimit>>

\* await sleep(this.batchDelayMs) resumes: i += batchSize and the next batch
\* is handed to the pool at the level read now.
PauseOver ==
  /\ phase = "pausing"
  /\ bi' = bi + batchSize
  /\ IF bi + batchSize < allTasks
     THEN /\ phase' = "inPool"
          /\ batchLimit' = levelForBatch
          /\ events' = Append(events, Event("start", bi + batchSize,
                                            sliceLen(bi + batchSize, allTasks)))
     ELSE /\ phase' = "done"
          /\ UNCHANGED <<batchLimit, events>>
  /\ UNCHANGED <<revision, concurrency, error429, timerLive, allTasks,
                 paramLimit, batchResults, lastAdjust, throttledAt>>

NextBuilder ==
  \/ TimerTick /\ UNCHANGED exceptBuilder
  \/ StopAdjusting /\ UNCHANGED exceptBuilder
  \/ Record429 /\ UNCHANGED exceptBuilder
  \/ CallProcessBatches /\ UNCHANGED exceptBuilder
  \/ \E rateErrors \in 0..MaxRateErrors :
       PoolReturns(rateErrors) /\ UNCHANGED exceptBuilder
  \/ PauseOver /\ UNCHANGED exceptBuilder

\* No builder exists.
NoBuilder ==
  /\ revision = "part_005" /\ concurrency = initialConcurrency
  /\ error429 = 0 /\ timerLive = FALSE /\ allTasks = 0 /\ bi = 0
  /\ phase = "none" /\ batchLimit = 0 /\ paramLimit = 0
  /\ batchResults = <<>> /\ events = <<>>
  /\ lastAdjust = [trigger |-> "none", c |-> 0, e |-> 0, flip |-> 0]
  /\ throttledAt = 0

(***************************************************************************)
(* main (src/index.ts): the builder is constructed, the action awaited in  *)
(* a try block whose catch calls process.exit(1) and whose finally calls   *)
(* builder.stopAdjusting().  The action is a run of the builder in which   *)
(* a call of the API client outside the batches may reject.                *)
(***************************************************************************)

\* No run of main.
NoMain == mainPc = "none" /\ stopCalls = 0 /\ exitMocked = FALSE

\* No runWithProgress call.
NoProgress == logged = <<>> /\ attempts = <<>>

\* No task is followed.
NoTask == wrapped = FALSE

\* Nothing recorded of the pace, no tally kept, no cleanUniverse called.
NoPace ==
  /\ clock = 0 /\ reducedTo = 0
  /\ added = 0 /\ lowered = 0 /\ failed429 = 0
  /\ cleanPc = "none" /\ cleanAttempt = 0 /\ fetches = 0 /\ sweeps = 0
  /\ said = "none"

\* No reconciliation.
NoRecon ==
  /\ goal = <<>> /\ remote = <<>> /\ seen = <<>> /\ todo = <<>>
  /\ nextTask = 0 /\ reconPc = "none" /\ pass = 0 /\ allOk = TRUE /\ ran = 0

\* The lengths of the task list of the action in a run of main.
MainTaskCounts == {0, 1, batchSize + 1}

\* main has constructed the client and the builder and awaits the action.
InitMain ==
  /\ InitBuilder
  /\ allTasks \in MainTaskCounts
  /\ mainPc = "acting"
  /\ stopCalls = 0
  /\ exitMocked \in BOOLEAN

\* builder.stopAdjusting() called from main
CallStopAdjusting ==
  /\ stopCalls' = stopCalls + 1
  /\ timerLive' = FALSE
  /\ UNCHANGED <<revision, concurrency, error429, allTasks, bi, phase,
                 batchLimit, paramLimit, batchResults, events, lastAdjust,
                 throttledAt>>

\* main awaits the action: the builder works, main and the rest stand still.
Awaiting ==
  /\ mainPc = "acting"
  /\ UNCHANGED exceptBuilder

\* The action fulfils: the try block ends, the finally block runs, main
\* returns.
ActionCompletes ==
  /\ mainPc = "acting"
  /\ phase = "done"
  /\ CallStopAdjusting
  /\ mainPc' = "returned"
  /\ UNCHANGED <<exitMocked, poolVars, retryVars, progressVars, reconVars,
                 taskVars, paceVars, tallyVars, cleanVars>>

\* The action rejects with an Error (a call of the API client made before
\* or after the batches failed): the catch block logs the message and calls
\* process.exit(1).  That ends the process where it stands; replaced by a
\* function that throws, it leaves the catch block by the throw, the
\* finally block runs and main rejects.
ActionThrows ==
  /\ mainPc = "acting"
  /\ phase \in {"idle", "done"}
  /\ IF exitMocked
     THEN /\ CallStopAdjusting
          /\ mainPc' = "rejected"
     ELSE /\ mainPc' = "exited"
          /\ UNCHANGED <<stopCalls, builderVars>>
  /\ UNCHANGED <<exitMocked, poolVars, retryVars, progressVars, reconVars,
                 taskVars, paceVars, tallyVars, cleanVars>>

NextMain ==
  \/ TimerTick /\ Awaiting
  \/ Record429 /\ Awaiting
  \/ CallProcessBatches /\ Awaiting
  \/ \E rateErrors \in 0..MaxRateErrors : PoolReturns(rateErrors) /\ Awaiting
  \/ PauseOver /\ Awaiting
  \/ ActionCompletes
  \/ ActionThrows

(***************************************************************************)
(* runWithProgress (MegaverseBuilder): every raw task is wrapped as        *)
(*   async () => { try { await fn(); } finally { log(); } }                *)
(* and the wrapped tasks go through processBatches; with fewer tasks than  *)
(* a batch holds that is one pool run.  fn may be a retry(...) that calls  *)
(* the remote service several times before it settles.                     *)
(***************************************************************************)
\* What the tasks of the builder settle with here: a value or an Error.
WrappedOutcomes == {"value", "error"}

\* The levels the pool run is made at.
ProgressLimits == {1, 2}

\* A wrapper that logs after the awaited call only: await fn(); log();
progressAfterSuccess(lg, k, kind) ==
  IF kind = "value" THEN [lg EXCEPT ![k] = @ + 1] ELSE lg

\* finally { log(); }: count++ of the logger, for task k, whatever fn did.
progressAfter(lg, k, kind) == [lg EXCEPT ![k] = @ + 1]

InitProgress ==
  /\ \E n \in 0..MaxTasks, l \in ProgressLimits : PoolStart(n, l)
  /\ logged = [k \in Indices |-> 0]
  /\ attempts = [k \in Indices |-> "none"]

\* The pool invokes the wrapper, which calls fn: the first remote call.
StartWrapped(w) ==
  /\ StartTask(w)
  /\ attempts' = [attempts EXCEPT ![current[w]] = "one"]
  /\ UNCHANGED logged

\* Inside fn, retry has seen a call fail, slept, and calls again; this may
\* happen any number of times.
CallAgain(w) ==
  /\ pc[w] = "running"
  /\ attempts' = [attempts EXCEPT ![current[w]] = "several"]
  /\ UNCHANGED <<poolVars, logged>>

\* fn settles: the finally block of the wrapper runs, then the wrapper
\* settles the same way and the runner goes on.
WrappedSettles(w, kind) ==
  /\ logged' = progressAfter(logged, current[w], kind)
  /\ Settle(w, kind)
  /\ UNCHANGED attempts

exceptProgress == <<retryVars, builderVars, mainVars, reconVars, taskVars,
                   paceVars,
    tallyVars, cleanVars>>

NextProgress ==
  \/ ClockTick /\ UNCHANGED <<progressVars, exceptProgress>>
  \/ \E w \in Runners : WakeUp(w) /\ UNCHANGED <<progressVars, exceptProgress>>
  \/ \E w \in Runners : StartWrapped(w) /\ UNCHANGED exceptProgress
  \/ \E w \in Runners : CallAgain(w) /\ UNCHANGED exceptProgress
  \/ \E w \in Runners, kind \in WrappedOutcomes :
       WrappedSettles(w, kind) /\ UNCHANGED exceptProgress
  \/ PoolReturn /\ UNCHANGED <<progressVars, exceptProgress>>

(***************************************************************************)
(* Reconciliation (MegaverseBuilder.syncWithGoal).  The maps have one row; *)
(* a goal token is the sequence of its words ("RED_SOLOON" is              *)
(* <<"RED", "SOLOON">>), a cell of the current map is null or an object    *)
(* with a type and, for soloons and comeths, a colour or a direction.      *)
(***************************************************************************)
GridCols == 2          \* columns of the maps

SOLOON == {"red", "blue", "purple", "white"}
COMETH == {"up", "down", "left", "right"}

\* String.prototype.toUpperCase / toLowerCase on the words that occur
toUpperCase(w) ==
  CASE w = "red" -> "RED" [] w = "blue" -> "BLUE" [] w = "purple" -> "PURPLE"
    [] w = "white" -> "WHITE" [] w = "up" -> "UP" [] w = "down" -> "DOWN"
    [] w = "left" -> "LEFT" [] w = "right" -> "RIGHT" [] OTHER -> w

toLowerCase(w) ==
  CASE w = "RED" -> "red" [] w = "BLUE" -> "blue" [] w = "PURPLE" -> "purple"
    [] w = "WHITE" -> "white" [] w = "UP" -> "up" [] w = "DOWN" -> "down"
    [] w = "LEFT" -> "left" [] w = "RIGHT" -> "right"
    [] w = "SPACE" -> "space" [] w = "POLYANET" -> "polyanet" [] OTHER -> w

\* CurrentCell | null
Cell(type, attr) == [type |-> type, attr |-> attr]
Null == Cell(0 - 1, "")

\* The goal tokens and the current cells the maps are drawn from.
GoalTokens ==
  {<<"SPACE">>, <<"POLYANET">>, <<"RED", "SOLOON">>, <<"UP", "COMETH">>}
CurrentCells ==
  {Null, Cell(0, ""), Cell(1, "red"), Cell(1, "blue"), Cell(2, "down")}

isSoloonToken(t) == \E c \in SOLOON : t = <<toUpperCase(c), "SOLOON">>
isComethToken(t) == \E d \in COMETH : t = <<toUpperCase(d), "COMETH">>

\* A comparison that looks at the type of the cell only.
isSameType(token, cell) ==
  \/ token = <<"SPACE">> /\ cell = Null
  \/ token = <<"POLYANET">> /\ cell.type = 0
  \/ isSoloonToken(token) /\ cell.type = 1
  \/ isComethToken(token) /\ cell.type = 2

\* isSame(token, cell): compare goal token and current cell
isSame(token, cell) ==
  \/ token = <<"SPACE">> /\ cell = Null
  \/ token = <<"POLYANET">> /\ cell.type = 0
  \/ isSoloonToken(token) /\ cell.type = 1 /\ cell.attr = toLowerCase(token[1])
  \/ isComethToken(token) /\ cell.type = 2 /\ cell.attr = toLowerCase(token[1])

\* A task of the list: a delete call of the kind of the cell it found, or
\* a call of createFromToken.
Task(op, c, type, token) == [op |-> op, c |-> c, type |-> type, token |-> token]

\* A remote call, or none.
Call(name, c, attr) == [name |-> name, c |-> c, attr |-> attr]
NoCall == Call("none", 0, "")

\* createFromToken that posts a polyanet for every token but SPACE.
createFromTokenPlain(token, c) ==
  IF token = <<"SPACE">> THEN NoCall ELSE Call("createPolyanet", c, "")

\* createFromToken(token, r, c): the call of the API client it makes
createFromToken(token, c) ==
  IF token = <<"POLYANET">> THEN Call("createPolyanet", c, "")
  ELSE IF isSoloonToken(token) THEN Call("createSoloon", c, toLowerCase(token[1]))
  ELSE IF isComethToken(token) THEN Call("createCometh", c, toLowerCase(token[1]))
  ELSE NoCall

\* The call a task makes when it is run.
callOf(t) ==
  IF t.op = "create" THEN createFromToken(t.token, t.c)
  ELSE Call(CASE t.type = 0 -> "deletePolyanet" [] t.type = 1 -> "deleteSoloon"
              [] OTHER -> "deleteCometh", t.c, "")

\* The map of the remote service after a call that succeeded.
served(map, call) ==
  CASE call.name = "createPolyanet" -> [map EXCEPT ![call.c] = Cell(0, "")]
    [] call.name = "createSoloon" -> [map EXCEPT ![call.c] = Cell(1, call.attr)]
    [] call.name = "createCometh" -> [map EXCEPT ![call.c] = Cell(2, call.attr)]
    [] call.name \in {"deletePolyanet", "deleteSoloon", "deleteCometh"} ->
         [map EXCEPT ![call.c] = Null]
    [] OTHER -> map

\* The todo list over the columns 1..n: for every cell that is not the
\* same, the delete of what is there and then the create of the token.
RECURSIVE todoUpTo(_, _, _)
todoUpTo(g, map, n) ==
  IF n = 0 THEN <<>>
  ELSE LET have == map[n]
           token == g[n]
           before == todoUpTo(g, map, n - 1)
       IN  IF isSame(token, have) THEN before
           ELSE before
                \o (IF have # Null THEN <<Task("delete", n, have.type, <<>>)>>
                    ELSE <<>>)
                \o <<Task("create", n, 0 - 1, token)>>

InitRecon ==
  /\ goal \in [1..GridCols -> GoalTokens]
  /\ remote \in [1..GridCols -> CurrentCells]
  /\ seen = <<>>
  /\ todo = <<>>
  /\ nextTask = 0
  /\ reconPc = "fetching"
  /\ pass = 1
  /\ allOk = TRUE
  /\ ran = 0

\* syncWithGoal from the answers of getGoalMap and getCurrentMap to its
\* return (nothing to fix) or to the start of the pool run over todo.
Diff ==
  /\ reconPc = "fetching"
  /\ seen' = remote
  /\ todo' = todoUpTo(goal, remote, GridCols)
  /\ IF todoUpTo(goal, remote, GridCols) = <<>>
     THEN reconPc' = "synced" /\ nextTask' = 0
     ELSE reconPc' = "fixing" /\ nextTask' = 1
  /\ UNCHANGED <<goal, remote, pass, allOk, ran>>

\* runtWithConcurrencyLimit(todo, 1) runs the next task: its call, if it
\* makes one, succeeds or fails at the remote service.
RunTask(ok) ==
  /\ reconPc = "fixing"
  /\ LET call == callOf(todo[nextTask])
     IN  /\ call = NoCall => ok
         /\ remote' = IF ok THEN served(remote, call) ELSE remote
         /\ allOk' = (allOk /\ ok)
  /\ nextTask' = nextTask + 1
  /\ reconPc' = IF nextTask = Len(todo) THEN "synced" ELSE "fixing"
  /\ ran' = IF pass = 1 THEN ran + 1 ELSE ran
  /\ UNCHANGED <<goal, seen, todo, pass>>

\* syncWithGoal is called again (the final guarantee of buildUniverse).
SyncAgain ==
  /\ reconPc = "synced"
  /\ pass = 1
  /\ pass' = 2
  /\ reconPc' = "fetching"
  /\ UNCHANGED <<goal, remote, seen, todo, nextTask, allOk, ran>>

exceptRecon == <<poolVars, retryVars, builderVars, mainVars, progressVars,
                taskVars, paceVars,
    tallyVars, cleanVars>>

NextRecon ==
  \/ Diff /\ UNCHANGED exceptRecon
  \/ \E ok \in BOOLEAN : RunTask(ok) /\ UNCHANGED exceptRecon
  \/ SyncAgain /\ UNCHANGED exceptRecon

(***************************************************************************)
(* One task on its way through the orchestrator: a batch of one task is    *)
(* in the pool (processBatches); the task calls the remote service, behind *)
(* retry with the builder's options when it is wrapped; the pool records   *)
(* its result and reacts to a "429" message; processBatches tallies the    *)
(* result and adjusts.                                                     *)
(***************************************************************************)

\* makeRetryOpts(): the options; its predicate is the policy "status", which
\* also counts the 429s it sees.  jitter is left to its default.
makeRetryOpts ==
  [retries |-> 8, factor |-> 2, minTimeout |-> 1000, maxTimeout |-> 60000,
   jitter |-> TRUE, policy |-> "status", onRetry |-> FALSE]

\* The limiter's refill rate at the start of the pool run of a batch.
startRate == initialConcurrency * Pow(5, MaxTasks)

InitTask ==
  /\ wrapped \in BOOLEAN
  /\ RetryStart(makeRetryOpts)
  /\ PoolStart(1, initialConcurrency)
  /\ revision = "part_005"
  /\ concurrency = initialConcurrency
  /\ error429 = 0
  /\ timerLive = TRUE
  /\ allTasks = 1
  /\ bi = 0
  /\ phase = "inPool"
  /\ batchLimit = initialConcurrency
  /\ paramLimit = 0
  /\ batchResults = <<>>
  /\ events = <<Event("start", 0, 1)>>
  /\ lastAdjust = [trigger |-> "none", c |-> 0, e |-> 0, flip |-> 0]
  /\ throttledAt = 0

\* The pool invokes the task, which makes its first remote call.
TaskStarts ==
  /\ rpc = "calling"
  /\ StartTask(1)
  /\ UNCHANGED <<retryVars, builderVars>>

\* A remote call succeeds.
CallFulfils ==
  /\ pc[1] = "running"
  /\ FnFulfils
  /\ UNCHANGED <<poolVars, builderVars>>

\* A remote call fails with err.  Behind retry, the catch block runs; the
\* builder's predicate, when it is evaluated, counts a 429.  Without retry
\* the task rejects with err at once.
CallRejects(err, r) ==
  /\ pc[1] = "running"
  /\ IF wrapped
     THEN /\ FnRejects(err, r)
          /\ error429' = IF ~exhausted(attempt + 1, rOpts.retries) /\ Includes429(err)
                         THEN error429 + 1 ELSE error429
     ELSE /\ rpc = "calling"
          /\ rpc' = "threw"
          /\ thrown' = err
          /\ failures' = failures + 1
          /\ lastErr' = err
          /\ UNCHANGED <<rOpts, attempt, calls, sleeps, evals, firstRetryable,
                         returned, lastDelay, observed, lastObserved, error429>>
  /\ UNCHANGED <<poolVars, revision, concurrency, timerLive, allTasks, bi,
                 phase, batchLimit, paramLimit, batchResults, events,
                 lastAdjust, throttledAt>>

\* The sleep of retry is over: the next remote call.
RetrySleepOver ==
  /\ SleepOver
  /\ UNCHANGED <<poolVars, builderVars>>

\* A settlement that the pool takes for an error without "429" in its
\* message.
settledAsPlain == IF rpc = "returned" THEN "value" ELSE "error"

\* What the pool sees the task settle with.
settledAs ==
  IF rpc = "returned" THEN "value"
  ELSE IF Includes429(thrown) THEN "error429" ELSE "error"

\* The task settles and the runner records the result.
TaskSettles ==
  /\ rpc \in {"returned", "threw"}
  /\ Settle(1, settledAs)
  /\ UNCHANGED <<retryVars, builderVars>>

\* await Promise.all(runners) resolves.
BatchPoolReturns ==
  /\ PoolReturn
  /\ UNCHANGED <<retryVars, builderVars>>

\* processBatches gets the results, tallies the 429s, adjusts and returns.
BatchTallied ==
  /\ poolState = "returned"
  /\ PoolReturns(IF results[0].kind = "error429" THEN 1 ELSE 0)
  /\ UNCHANGED <<poolVars, retryVars>>

\* The errors a remote call fails with here: those without headers.
TaskErrors(id) == {e \in ErrorsOf(id) : e.hdr.kind = "absent"}

exceptTask == <<mainVars, progressVars, reconVars, taskVars, paceVars,
    tallyVars, cleanVars>>

NextTask ==
  \/ TaskStarts /\ UNCHANGED exceptTask
  \/ CallFulfils /\ UNCHANGED exceptTask
  \/ \E err \in TaskErrors(calls), r \in Randoms :
       CallRejects(err, r) /\ UNCHANGED exceptTask
  \/ RetrySleepOver /\ UNCHANGED exceptTask
  \/ TaskSettles /\ UNCHANGED exceptTask
  \/ BatchPoolReturns /\ UNCHANGED exceptTask
  \/ BatchTallied /\ UNCHANGED exceptTask

(***************************************************************************)
(* The pace of admission over the batches of one processBatches call: each *)
(* batch is a call of runtWithConcurrencyLimit, which constructs its own   *)
(* RateLimiter; a task of the batch that fails with a "429" message makes  *)
(* the pool call adjustRateLimit on it; the results the pool returns hold  *)
(* one rate-limited rejection for each.                                    *)
(***************************************************************************)
poolVarsButRate == <<tasksLen, limit, i, results, pc, current, sleepLeft,
                     tokens, maxTokens, sinceRefill, poolState, outcome,
                     settleSeq, started, afterRefill, claimed, invoked>>

\* new RateLimiter(limit * 2, limit * 0.5) of the pool run that begins in
\* this step, if one does.
NewLimiter ==
  refillRate' = IF phase' = "inPool" THEN RateAfter(batchLimit', 0) ELSE 0

\* How many tasks of the batch under way have failed with a "429" message.
RateErrorsSoFar ==
  CHOOSE n \in 0..MaxTasks : refillRate = RateAfter(batchLimit, n)

InitPacing ==
  /\ InitBuilder
  /\ allTasks \in MainTaskCounts

\* processBatches is called; its first batch, if any, goes to the pool.
PacedCall ==
  /\ CallProcessBatches
  /\ NewLimiter
  /\ UNCHANGED <<poolVarsButRate, paceVars>>

\* A task of the batch fails with a "429" message: the pool records the
\* rejection and calls rateLimiter.adjustRateLimit().
TaskRateLimited ==
  /\ phase = "inPool"
  /\ RateErrorsSoFar < Min(Min(MaxRateErrors, MaxTasks), sliceLen(bi, allTasks))
  /\ refillRate' = adjustRateLimit([refillRate |-> refillRate]).refillRate
  /\ reducedTo' = refillRate'
  /\ UNCHANGED <<poolVarsButRate, clock, builderVars>>

\* The pool run of the batch returns; its limiter is dropped.
PacedReturn ==
  /\ phase = "inPool"
  /\ PoolReturns(RateErrorsSoFar)
  /\ refillRate' = 0
  /\ UNCHANGED <<poolVarsButRate, paceVars>>

\* The pause is over: the next batch, if any, goes to the pool.
PacedPauseOver ==
  /\ PauseOver
  /\ NewLimiter
  /\ UNCHANGED <<poolVarsButRate, paceVars>>

exceptPacing == <<retryVars, mainVars, progressVars, reconVars, taskVars,
                 tallyVars, cleanVars>>

NextPacing ==
  \/ TimerTick /\ UNCHANGED exceptBuilder
  \/ PacedCall /\ UNCHANGED exceptPacing
  \/ TaskRateLimited /\ UNCHANGED exceptPacing
  \/ PacedReturn /\ UNCHANGED exceptPacing
  \/ PacedPauseOver /\ UNCHANGED exceptPacing

(***************************************************************************)
(* Specifications.                                                         *)
(***************************************************************************)
\* One pool run on its own: no retry call is in progress.
PoolAlone == InitPool /\ NoRetry /\ NoBuilder /\ NoMain /\ NoProgress /\ NoRecon
  /\ NoTask /\ NoPace
SpecPool == PoolAlone /\ [][NextPool]_vars

\* One retry call on its own.
RetryAlone == InitRetry /\ NoPool /\ NoBuilder /\ NoMain /\ NoProgress /\ NoRecon
  /\ NoTask /\ NoPace
\* One pool run whose tasks all fulfil, watched for its limiter.
LimiterAlone == InitLimiter /\ NoRetry /\ NoBuilder /\ NoMain /\ NoProgress /\ NoRecon
  /\ NoTask /\ NoPace
SpecLimiter == LimiterAlone /\ [][NextLimiter]_vars

SpecRetry == RetryAlone /\ [][NextRetry]_vars

\* One builder and one processBatches call, its pool runs taken as a whole.
BuilderAlone == InitBuilder /\ NoPool /\ NoRetry /\ NoMain /\ NoProgress /\ NoRecon
  /\ NoTask /\ NoPace
SpecBuilder == BuilderAlone /\ [][NextBuilder]_vars

\* One runWithProgress call over fewer tasks than a batch holds.
ProgressAlone == InitProgress /\ NoRetry /\ NoBuilder /\ NoMain /\ NoRecon
  /\ NoTask /\ NoPace
SpecProgress == ProgressAlone /\ [][NextProgress]_vars

\* Two calls of syncWithGoal, one after the other.
ReconAlone == InitRecon /\ NoPool /\ NoRetry /\ NoBuilder /\ NoMain /\ NoProgress
  /\ NoTask /\ NoPace
SpecRecon == ReconAlone /\ [][NextRecon]_vars

\* One task, from the start of its batch to the return of processBatches.
TaskAlone == InitTask /\ NoMain /\ NoProgress /\ NoRecon /\ NoPace
SpecTask == TaskAlone /\ [][NextTask]_vars

\* One processBatches call, watched for the rate of its limiters.
PacingAlone == InitPacing /\ NoPool /\ NoRetry /\ NoMain /\ NoProgress /\ NoRecon
  /\ NoTask /\ NoPace
SpecPacing == PacingAlone /\ [][NextPacing]_vars

\* One run of main from the try block on.
MainAlone == InitMain /\ NoPool /\ NoRetry /\ NoProgress /\ NoRecon
  /\ NoTask /\ NoPace
SpecMain == MainAlone /\ [][NextMain]_vars

(***************************************************************************)
(* Properties of the retry engine.                                         *)
(***************************************************************************)
\* C4: with a predicate that always allows retrying, a retry call whose fn
\* failed every time ends after exactly retries + 1 invocations and exactly
\* `retries` sleeps, rejecting with the error of the last invocation; fn is
\* never invoked more than retries + 1 times.
C4_StopsAfterMaxRetries ==
  /\ calls <= rOpts.retries + 1
  /\ (rOpts.policy = "always" /\ rpc = "threw") =>
       /\ calls = rOpts.retries + 1
       /\ failures = calls
       /\ sleeps = rOpts.retries
       /\ thrown = lastErr
       /\ thrown.id = calls

\* C4 witness: retries = 2, fn failed three times, two sleeps, rejected.
C4_Witness ==
  /\ rOpts.policy = "always" /\ rOpts.retries = 2
  /\ rpc = "threw" /\ calls = 3 /\ sleeps = 2 /\ thrown.id = 3

\* C5: when fn fails k <= retries times with retryable errors and then
\* fulfils, retry returns the value of that invocation after exactly k + 1
\* invocations and k sleeps; retry rejects only when the retries are used up
\* or the error is not retryable.
C5_ReturnsAfterKFailures ==
  /\ rpc = "returned" =>
       /\ calls = failures + 1
       /\ sleeps = failures
       /\ returned = calls
       /\ failures <= rOpts.retries
  /\ rpc = "threw" =>
       \/ failures > rOpts.retries
       \/ ~shouldRetry(rOpts.policy, lastErr)

\* C5 witness: fn failed twice (as often as retries allows) and then
\* fulfilled.
C5_Witness ==
  /\ rpc = "returned" /\ rOpts.retries = 2
  /\ failures = 2 /\ calls = 3 /\ sleeps = 2

\* C6 as stated: if shouldRetry answers false for the first error, retry
\* invokes fn once, evaluates shouldRetry once, never sleeps and rejects
\* with that first error.
C6_Original ==
  (failures >= 1 /\ ~firstRetryable) =>
    /\ rpc = "threw"
    /\ calls = 1
    /\ evals = 1
    /\ sleeps = 0
    /\ thrown = lastErr /\ thrown.id = 1

\* C6 amended: if shouldRetry answers false for the first error, retry
\* invokes fn once, never sleeps and rejects with that first error; it
\* evaluates shouldRetry exactly once when retries >= 1, and not at all when
\* retries = 0 (attempt > retries is decided first).
C6_PredicateShortCircuit ==
  (failures >= 1 /\ ~firstRetryable) =>
    /\ rpc = "threw"
    /\ calls = 1
    /\ evals = (IF rOpts.retries >= 1 THEN 1 ELSE 0)
    /\ sleeps = 0
    /\ thrown = lastErr /\ thrown.id = 1

\* C6 witness: the predicate refused the first error of a call with
\* retries >= 1.
C6_Witness ==
  /\ rOpts.policy = "never" /\ rOpts.retries >= 1
  /\ rpc = "threw" /\ evals = 1 /\ calls = 1 /\ sleeps = 0

\* The number a string of decimal digits denotes.
RECURSIVE DecimalValue(_)
DecimalValue(d) ==
  IF d = <<>> THEN 0 ELSE d[1] * Pow(10, Len(d) - 1) + DecimalValue(Tail(d))

\* min(minDelay * factor^(attempt - 1), maxDelay) for the retry in progress
C7_Base ==
  LET raw == rOpts.minTimeout * Pow(rOpts.factor, attempt - 1)
  IN  IF raw < rOpts.maxTimeout THEN raw ELSE rOpts.maxTimeout

\* C7: with jitter disabled, the delay retry sleeps for after an error whose
\* message contains "429" is min(seconds * 1000, maxTimeout) when the error
\* carries a retry-after header in seconds form, and min(2 * base,
\* maxTimeout) when it carries none; a retry-after of 5 seconds gives
\* 5000 ms whenever maxTimeout >= 5000.
C7_RateLimitDelay ==
  (rpc = "sleeping" /\ ~rOpts.jitter /\ Includes429(lastErr)) =>
    /\ lastErr.hdr.kind = "seconds" =>
         /\ lastDelay = Min(DecimalValue(lastErr.hdr.digits) * 1000,
                            rOpts.maxTimeout)
         /\ (DecimalValue(lastErr.hdr.digits) = 5 /\ rOpts.maxTimeout >= 5000)
              => lastDelay = 5000
    /\ lastErr.hdr.kind \in {"absent", "null"} =>
         lastDelay = Min(2 * C7_Base, rOpts.maxTimeout)

\* C7 witness: a 429 error with Retry-After "05" is slept on for 5000 ms
\* where the exponential base would have been 1000 ms.
C7_Witness ==
  /\ rpc = "sleeping" /\ ~rOpts.jitter /\ Includes429(lastErr)
  /\ lastErr.hdr = Hdr("seconds", <<0, 5>>, 0)
  /\ attempt = 1 /\ rOpts.maxTimeout = 30000
  /\ lastDelay = 5000

(***************************************************************************)
(* Properties of the worker pool.                                          *)
(***************************************************************************)
\* results.length of the JavaScript array: one more than the last index set.
ResultsLength ==
  LET set == {k \in Indices : results[k] # EmptySlot}
  IN  IF set = {} THEN 0 ELSE 1 + CHOOSE k \in set : \A j \in set : j <= k

Executing == {k \in Indices : k < i /\ outcome[k] = "unsettled"}

StatusOf(kind) == IF kind = "value" THEN "fulfilled" ELSE "rejected"

\* C1: when runtWithConcurrencyLimit returns, every task has settled and the
\* returned array has exactly tasks.length entries, entry k being the
\* outcome (value or reason) of task k, whatever the completion order.
C1_ReturnsAlignedResults ==
  poolState = "returned" =>
    /\ ResultsLength = tasksLen
    /\ \A k \in Indices :
         /\ outcome[k] # "unsettled"
         /\ results[k] # EmptySlot
         /\ results[k].of = k
         /\ results[k].kind = outcome[k]
         /\ results[k].status = StatusOf(outcome[k])

\* C1 witness: a run of two workers has returned although its tasks
\* completed out of submission order.
C1_Witness ==
  /\ poolState = "returned"
  /\ limit >= 2
  /\ tasksLen >= 3
  /\ \E a, b \in 1..Len(settleSeq) : a < b /\ settleSeq[a] > settleSeq[b]

\* C2: a failing task, whatever its failure reason, is recorded as rejected
\* at its own index, never makes the pool call fail and never keeps another
\* task from being executed and settled: once no runner is left running,
\* every task has settled, the succeeding ones recorded as fulfilled and
\* the failing ones as rejected.
C2_FailureIsolated ==
  /\ poolState # "threw"
  /\ \A k \in Indices :
       outcome[k] # "unsettled" =>
         /\ results[k] # EmptySlot
         /\ results[k].status = StatusOf(outcome[k])
  /\ (\A w \in Runners : pc[w] \in {"done", "crashed"}) =>
       \A k \in Indices : outcome[k] # "unsettled"

\* C3: at most `limit` tasks are claimed and not yet settled.
C3_AtMostLimitExecuting == Cardinality(Executing) <= limit

\* C3 witness: two workers both have a task in flight while a third task is
\* still unclaimed.
C3_Witness ==
  /\ limit = 2
  /\ Cardinality(Executing) = 2
  /\ \A w \in Runners : pc[w] = "running"
  /\ i < tasksLen


(***************************************************************************)
(* Properties of the concurrency controller and the batch scheduler        *)
(* (SpecBuilder).                                                          *)
(***************************************************************************)

\* C8: every concurrency adjustment, by the timer or right after a batch,
\* that reads an error count of zero raises the concurrency by exactly one,
\* or leaves it alone at maxConcurrency; one that reads a count k > 0 lowers
\* it by exactly min(k, concurrency - 1); and the counter is zero right
\* after it.  The count read by a tick is the counter itself.
C8_AdjustmentStep ==
  [][lastAdjust' # lastAdjust =>
       LET k == lastAdjust'.e IN
         /\ lastAdjust'.trigger \in {"tick", "immediate"}
         /\ lastAdjust'.trigger = "tick" => k = error429
         /\ lastAdjust'.trigger = "immediate" => k > error429
         /\ k = 0 =>
              concurrency' = IF concurrency = maxConcurrency
                             THEN concurrency ELSE concurrency + 1
         /\ k > 0 =>
              concurrency' = concurrency - (IF k < concurrency - 1
                                            THEN k ELSE concurrency - 1)
         /\ error429' = 0]_vars

\* An adjustment right after a batch has read three errors at the full
\* level of eight and lowered the concurrency to five.
C8_Witness ==
  /\ lastAdjust.trigger = "immediate"
  /\ lastAdjust.c = 8 /\ lastAdjust.e = 3
  /\ concurrency = 5 /\ error429 = 0

\* C9: in every reachable state of a builder, whatever the interleaving of
\* ticks, adjustments after batches and 429s recorded by retry predicates,
\* 1 <= concurrency <= maxConcurrency.
C9_ConcurrencyInRange ==
  /\ concurrency \in Int
  /\ 1 <= concurrency
  /\ concurrency <= maxConcurrency

\* A tick has read at least as many errors as the level it found, and the
\* concurrency stands at one.
C9_Witness ==
  /\ lastAdjust.trigger = "tick"
  /\ lastAdjust.e >= lastAdjust.c
  /\ concurrency = 1

\* ceil(N / B) for the task list of the call.
BatchCount == (allTasks + batchSize - 1) \div batchSize

\* The run of a call over N tasks as the claim describes it: batch k = 0,
\* 1, ... covers the indices k * B up to (k + 1) * B or N, starts, ends,
\* and is followed by a pause unless it is the last.
ExpectedEvents ==
  [j \in 1..(IF BatchCount = 0 THEN 0 ELSE 3 * BatchCount - 1) |->
     LET k == (j - 1) \div 3
         from == k * batchSize
         len == IF k < BatchCount - 1 THEN batchSize ELSE allTasks - from
     IN  CASE (j - 1) % 3 = 0 -> [ev |-> "start", from |-> from, len |-> len]
           [] (j - 1) % 3 = 1 -> [ev |-> "end", from |-> from, len |-> len]
           [] OTHER -> [ev |-> "pause", from |-> 0, len |-> 0]]

PausesTaken == Cardinality({j \in DOMAIN events : events[j].ev = "pause"})

BatchesStarted == Cardinality({j \in DOMAIN events : events[j].ev = "start"})

\* C10: processBatches over N tasks with batch size B forms exactly
\* ceil(N / B) batches of contiguous tasks and runs them strictly one after
\* another in order, with exactly max(0, ceil(N / B) - 1) pauses, one after
\* every batch but the last: at every moment what has happened is a prefix
\* of that run, and at the return it is the whole of it.
C10_BatchesInOrder ==
  /\ Len(events) <= Len(ExpectedEvents)
  /\ \A j \in DOMAIN events : events[j] = ExpectedEvents[j]
  /\ phase = "inPool" <=> (Len(events) > 0 /\ events[Len(events)].ev = "start")
  /\ phase = "done" =>
       /\ events = ExpectedEvents
       /\ BatchesStarted = BatchCount
       /\ PausesTaken = (IF BatchCount = 0 THEN 0 ELSE BatchCount - 1)
       /\ Len(events) > 0 => events[Len(events)].ev = "end"

\* 45 tasks have run as batches of 20, 20 and 5 with two pauses.
C10_Witness ==
  /\ phase = "done"
  /\ allTasks = 45
  /\ PausesTaken = 2
  /\ events = << [ev |-> "start", from |-> 0, len |-> 20],
                 [ev |-> "end", from |-> 0, len |-> 20],
                 [ev |-> "pause", from |-> 0, len |-> 0],
                 [ev |-> "start", from |-> 20, len |-> 20],
                 [ev |-> "end", from |-> 20, len |-> 20],
                 [ev |-> "pause", from |-> 0, len |-> 0],
                 [ev |-> "start", from |-> 40, len |-> 5],
                 [ev |-> "end", from |-> 40, len |-> 5] >>

\* C11: processBatches returns exactly one settled result per submitted
\* task, and result i of the returned list is the outcome of task i of the
\* submitted list, across all batches and whatever level each batch ran at;
\* before the return the results are those of the tasks of the batches
\* that have ended, in order.
C11_ResultsAligned ==
  /\ \A k \in DOMAIN batchResults : batchResults[k] = k - 1
  /\ phase = "done" => Len(batchResults) = allTasks

\* 45 tasks have run in three batches, the level lowered after one of them,
\* and the call has returned its 45 results.
C11_Witness ==
  /\ phase = "done"
  /\ allTasks = 45
  /\ Len(batchResults) = 45
  /\ lastAdjust.trigger = "immediate"
  /\ concurrency < initialConcurrency

(***************************************************************************)
(* Properties of main (SpecMain).                                          *)
(***************************************************************************)

\* C12: once main has constructed the builder, stopAdjusting is invoked
\* exactly once on every path out of main, when the action completes and
\* when it throws, so that no run ends with the periodic timer live.
C12_StoppedOnEveryPath ==
  mainPc \in {"returned", "rejected", "exited"} =>
    (stopCalls = 1 /\ ~timerLive)

(***************************************************************************)
(* Properties of the token bucket (SpecLimiter).                           *)
(***************************************************************************)

\* C13: after every refill step of the token bucket 0 <= tokens <=
\* maxTokens, however many runners call getToken and however their waits
\* interleave.
C13_TokensInRange ==
  /\ 0 <= afterRefill
  /\ afterRefill <= maxTokens

(***************************************************************************)
(* Properties of runWithProgress (SpecProgress).                           *)
(***************************************************************************)
RECURSIVE SumTo(_, _)
SumTo(f, n) == IF n = 0 THEN 0 ELSE f[n - 1] + SumTo(f, n - 1)

\* C14: when N tasks are run through runWithProgress the progress callback
\* fires exactly once per task, whether the task fulfils or rejects, and
\* however often the task called the remote service: it has fired for a
\* task exactly when the task has settled, and N times in all when the run
\* completes.
C14_ProgressOncePerTask ==
  /\ \A k \in Indices :
       logged[k] = (IF outcome[k] = "unsettled" THEN 0 ELSE 1)
  /\ poolState = "returned" => SumTo(logged, tasksLen) = tasksLen

\* A run of three tasks has completed, one fulfilled after several calls,
\* one rejected, and the callback has fired three times.
C14_Witness ==
  /\ poolState = "returned"
  /\ tasksLen = 3
  /\ SumTo(logged, tasksLen) = 3
  /\ \E k \in Indices : outcome[k] = "value" /\ attempts[k] = "several"
  /\ \E k \in Indices : outcome[k] = "error" /\ attempts[k] = "several"

(***************************************************************************)
(* Properties of the reconciliation (SpecRecon).                           *)
(***************************************************************************)

\* What a goal token asks a cell to hold.
Entity(token) ==
  CASE token = <<"SPACE">> -> [type |-> 0 - 1, attr |-> ""]
    [] token = <<"POLYANET">> -> [type |-> 0, attr |-> ""]
    [] token = <<"RED", "SOLOON">> -> [type |-> 1, attr |-> "red"]
    [] token = <<"UP", "COMETH">> -> [type |-> 2, attr |-> "up"]

Mismatched(c) == seen[c] # Entity(goal[c])

Occupied(c) == seen[c].type \in {0, 1, 2}

TasksAt(op, c) == {j \in DOMAIN todo : todo[j].op = op /\ todo[j].c = c}

\* C15: syncWithGoal generates no task when every cell of the current map
\* matches the goal; otherwise its task list holds exactly one delete, of
\* the kind found, for each mismatched cell that is occupied, and one create
\* of the goal token for each mismatched cell (a call that leaves the goal
\* entity in the cell; for the token SPACE no call at all), and nothing for
\* a matching cell.
C15_ExactTaskSet ==
  reconPc \in {"fixing", "synced"} =>
    /\ (\A c \in DOMAIN goal : ~Mismatched(c)) => todo = <<>>
    /\ \A c \in DOMAIN goal :
         /\ Cardinality(TasksAt("delete", c)) =
              (IF Mismatched(c) /\ Occupied(c) THEN 1 ELSE 0)
         /\ Cardinality(TasksAt("create", c)) = (IF Mismatched(c) THEN 1 ELSE 0)
         /\ \A j \in TasksAt("delete", c) : todo[j].type = seen[c].type
         /\ \A j \in TasksAt("create", c) :
              /\ todo[j].token = goal[c]
              /\ IF goal[c] = <<"SPACE">>
                 THEN callOf(todo[j]).name = "none"
                 ELSE /\ callOf(todo[j]).name # "none"
                      /\ served(seen, callOf(todo[j]))[c] = Entity(goal[c])
    /\ \A j \in DOMAIN todo :
         todo[j].op \in {"delete", "create"} /\ todo[j].c \in DOMAIN goal

\* A polyanet is where the goal wants one and a blue soloon where the goal
\* wants a red one: the list is the delete of the soloon and the create of
\* the red soloon.
C15_Witness ==
  /\ reconPc = "fixing"
  /\ goal = <<(<<"POLYANET">>), (<<"RED", "SOLOON">>)>>
  /\ seen = <<[type |-> 0, attr |-> ""], [type |-> 1, attr |-> "blue"]>>
  /\ Len(todo) = 2
  /\ todo[1].op = "delete" /\ todo[2].op = "create"

\* C16: reconciliation is idempotent: after one reconciliation in which
\* every create and delete call succeeded at the remote service, the remote
\* map holds the goal and a second reconciliation generates no task.
C16_Idempotent ==
  /\ (pass = 1 /\ reconPc = "synced" /\ allOk) =>
       \A c \in DOMAIN goal : remote[c] = Entity(goal[c])
  /\ (pass = 2 /\ reconPc # "fetching" /\ allOk) =>
       (todo = <<>> /\ reconPc = "synced")

\* A first reconciliation ran three tasks or more, all with success, and
\* the second found nothing to do.
C16_Witness ==
  /\ pass = 2
  /\ reconPc = "synced"
  /\ allOk
  /\ ran >= 3
  /\ todo = <<>>

(***************************************************************************)
(* Further properties of the retry engine (SpecRetry).                     *)
(***************************************************************************)

\* An error of HTTP status 429 or 5xx.
RetryableStatus(err) == err.status = 429 \/ (err.status >= 500 /\ err.status <= 599)

\* C17: when the caller supplies no predicate of its own (the policy
\* "always" is the default () => true), retry treats an error as retryable
\* exactly when its status is 429 or 5xx: after the first failure, with
\* retries left, it sleeps for a 429 or 5xx and for any other error it throws
\* that error after the single call of fn.
C17_DefaultClassification ==
  (rOpts.policy = "always" /\ failures = 1 /\ rOpts.retries >= 1) =>
    IF RetryableStatus(lastErr)
    THEN sleeps = 1 /\ rpc # "threw"
    ELSE sleeps = 0 /\ rpc = "threw" /\ calls = 1 /\ thrown = lastErr

\* C20: maxTimeout is the maximum delay between retries: for every attempt,
\* every error and every setting of the options, with jitter or without,
\* the delay retry passes to sleep is at most maxTimeout.
C20_DelayAtMostMaxTimeout ==
  rpc = "sleeping" => lastDelay <= rOpts.maxTimeout

(***************************************************************************)
(* Properties of a task of the orchestrator (SpecTask).                    *)
(***************************************************************************)

\* C18: for every task the orchestrator hands to the scheduler or the pool,
\* create and delete tasks alike, a 429 or 5xx failure of the remote call is
\* retried, and the task is rejected with such an error only after the
\* retries of the policy are exhausted.
C18_RetriedUntilExhausted ==
  (rpc = "threw" /\ RetryableStatus(thrown)) => calls = rOpts.retries + 1

\* C19: a task whose remote call fails with a 4xx status other than 429 is
\* rejected after that single call with no sleep, and the concurrency
\* level, the throttling-error counter and the limiter's refill rate stay
\* as they were.
C19_NonRetryableFrame ==
  (failures = 1 /\ lastErr.status >= 400 /\ lastErr.status <= 499
     /\ lastErr.status # 429) =>
    /\ rpc = "threw" /\ calls = 1 /\ sleeps = 0
    /\ concurrency = initialConcurrency
    /\ error429 = 0
    /\ refillRate = startRate

\* C21: for every attempt and every retry-after header value, with jitter
\* disabled, the delay retry sleeps for after an error whose message
\* contains "429" is at least the delay computed at the same attempt for an
\* error that is not a rate-limit error (the capped exponential base).
C21_RateLimitDelayLonger ==
  (rpc = "sleeping" /\ ~rOpts.jitter /\ Includes429(lastErr)) =>
    lastDelay >= baseDelay(attempt, rOpts)

(***************************************************************************)
(* Further properties of the worker pool (SpecPool).                       *)
(***************************************************************************)

\* The runners that hold index k: they have claimed it and have not yet
\* recorded its result.
HoldersOf(k) ==
  {w \in Runners : pc[w] \in {"sleeping", "acquired", "running"} /\ current[w] = k}

\* C22: in a pool run, under every interleaving of the runners, no index is
\* claimed twice and none is skipped: the indices below the cursor have each
\* been claimed exactly once and the others never; an index whose task has
\* not settled is held by exactly one runner; no task is invoked more than
\* once, none before its index is claimed, and a settled task has been
\* invoked exactly once; when the run returns every index has been claimed
\* once and its task invoked once.
C22_EachIndexOnce ==
  /\ i <= tasksLen
  /\ \A k \in Indices :
       /\ claimed[k] = IF k < i THEN 1 ELSE 0
       /\ invoked[k] <= claimed[k]
       /\ (k < i /\ outcome[k] = "unsettled") => Cardinality(HoldersOf(k)) = 1
       /\ outcome[k] # "unsettled" => (invoked[k] = 1 /\ HoldersOf(k) = {})
  /\ poolState = "returned" =>
       \A k \in Indices : claimed[k] = 1 /\ invoked[k] = 1

\* C22 witness: a run of three tasks on two runners has returned, the task
\* of index 1 having settled before that of index 0, each index claimed
\* once and each task invoked once.
C22_Witness ==
  /\ poolState = "returned"
  /\ tasksLen = 3 /\ limit = 2
  /\ settleSeq = <<1, 0, 2>>
  /\ \A k \in Indices : claimed[k] = 1 /\ invoked[k] = 1

(***************************************************************************)
(* Further properties of the batch scheduler (SpecBuilder).                *)
(***************************************************************************)

\* C23: each batch is run with the concurrency level that is current at the
\* moment the batch starts: the step that hands a batch to the pool passes
\* this.concurrency as it is then; while the batch is running a change of
\* the level (by a tick or a retry predicate) does not change the batch's
\* number of workers, and so takes effect from the next batch.
C23_LevelReadAtBatchStart ==
  [][/\ (phase # "inPool" /\ phase' = "inPool") => batchLimit' = concurrency'
     /\ (phase = "inPool" /\ phase' = "inPool") => batchLimit' = batchLimit]_vars

\* C24: when a batch has ended with some of its results rejected for
\* rate-limiting, the next batch starts throttled down, whatever ticks of
\* the timer come in between: it runs at a level strictly lower than the
\* level the throttled batch ran at, or at 1 if that level was 1 (for the
\* builder that reads this.concurrency at each batch).
C24_NextBatchThrottledDown ==
  (revision = "part_005" /\ phase = "inPool" /\ throttledAt > 0) =>
    \/ batchLimit < throttledAt
    \/ throttledAt = 1 /\ batchLimit = 1

\* C25: after stopAdjusting the controller has no further effect: in every
\* later step the timer stays cancelled, no tick adjusts, and the
\* concurrency level stays as it is.
C25_NoEffectAfterStop ==
  [][~timerLive =>
       /\ ~timerLive'
       /\ (lastAdjust' # lastAdjust => lastAdjust'.trigger # "tick")
       /\ concurrency' = concurrency]_vars

(***************************************************************************)
(* Properties of the limiter's acquire (SpecPool).                         *)
(***************************************************************************)

\* Runner w calls getToken in this step: it has recorded a result and
\* claimed its next index.
CallsGetToken(w) == pc[w] = "running" /\ pc'[w] \in {"acquired", "sleeping"}

\* The sleep of runner w in getToken ends in this step.
EndsSleep(w) == pc[w] = "sleeping" /\ pc'[w] # "sleeping"

\* C26: each getToken first refills, tokens = min(maxTokens, tokens +
\* elapsed ms * refillRate) and lastRefill = now; then with tokens >= 1 it
\* takes exactly one token and returns without suspending, and otherwise it
\* suspends once, for ceil((1 - tokens) / refillRate) ms, and takes exactly
\* one token when that sleep is over.  Every completed acquire consumes
\* exactly one token and nothing else does: the runners started on the
\* full bucket have taken one token each.
C26_AcquireConsumesOne ==
  /\ tokens = maxTokens - TokenUnit * Cardinality({w \in Runners : pc[w] = "acquired"})
  /\ \A w \in Runners : pc[w] # "sleeping"
  /\ [][/\ \A w \in Runners :
            /\ CallsGetToken(w) =>
                 /\ afterRefill' = Min(maxTokens, tokens + sinceRefill * refillRate')
                 /\ sinceRefill' = 0
                 /\ IF afterRefill' >= TokenUnit
                    THEN pc'[w] = "acquired" /\ tokens' = afterRefill' - TokenUnit
                    ELSE /\ pc'[w] = "sleeping"
                         /\ tokens' = afterRefill'
                         /\ sleepLeft'[w] = CeilDiv(TokenUnit - afterRefill', refillRate')
            /\ EndsSleep(w) =>
                 /\ sleepLeft[w] = 0
                 /\ pc'[w] = "acquired"
                 /\ tokens' = tokens - TokenUnit
        /\ (\A w \in Runners : ~CallsGetToken(w) /\ ~EndsSleep(w)) => tokens' = tokens]_vars

\* C26 witness: a getToken has found less than one token after its refill and
\* its runner is suspended for the ceil((1 - tokens) / refillRate) ms.
C26_Witness ==
  \E w \in Runners :
    /\ pc[w] = "sleeping"
    /\ sinceRefill = 0
    /\ tokens = afterRefill /\ tokens < TokenUnit
    /\ sleepLeft[w] = CeilDiv(TokenUnit - tokens, refillRate)
    /\ sleepLeft[w] > 0

(***************************************************************************)
(* Properties of the limiter's pace (SpecLimiter).                         *)
(***************************************************************************)

\* The getToken calls that have completed: one per claimed index, less the
\* runners still suspended in theirs.
AcquiresCompleted == i - Cardinality({w \in Runners : pc[w] = "sleeping"})

\* C27: the limiter never over-admits: at every moment the number of
\* completed acquires is at most maxTokens + refillRate * (time since the
\* limiter's construction), however many runners wait in getToken at once.
C27_NeverOverAdmits ==
  AcquiresCompleted * TokenUnit <= maxTokens + refillRate * clock

(***************************************************************************)
(* Properties of the pool's reaction to rate-limiting (SpecPool).          *)
(***************************************************************************)

\* The tasks that have failed with a reason whose message contains "429".
RateLimited == {k \in Indices : outcome[k] = "error429"}

\* C28: in a pool run each task failure whose reason indicates
\* rate-limiting (a message with "429") triggers exactly one
\* adjustRateLimit on the run's limiter, and successes and other failures
\* trigger none: the refill rate is the starting rate times 0.8 for each
\* such failure so far.  The call is made by the failing runner after it has
\* recorded the rejection and before it claims its next task: the step
\* that settles the task writes the rejected result, lowers the rate, and
\* the getToken of the runner's next claim already refills at the lowered
\* rate.
C28_OneAdjustPerRateLimit ==
  /\ [](refillRate = RateAfter(limit, Cardinality(RateLimited)))
  /\ [][\A w \in Runners :
          (pc[w] = "running" /\ pc'[w] # "running") =>
            LET k == current[w] IN
              IF outcome'[k] = "error429"
              THEN /\ results'[k].status = "rejected"
                   /\ 5 * refillRate' = 4 * refillRate
                   /\ CallsGetToken(w) =>
                        afterRefill' = Min(maxTokens, tokens + sinceRefill * refillRate')
              ELSE refillRate' = refillRate]_vars

\* C28 witness: a run has returned in which one task fulfilled, one failed
\* without "429" and one failed with "429"; the rate has been lowered once.
C28_Witness ==
  /\ poolState = "returned"
  /\ Cardinality(RateLimited) = 1
  /\ \E k \in Indices : outcome[k] = "error"
  /\ \E k \in Indices : outcome[k] = "value"
  /\ \A k \in RateLimited : results[k].status = "rejected"
  /\ 5 * refillRate = 4 * RateAfter(limit, 0)

(***************************************************************************)
(* Properties of the pace over the batches (SpecPacing).                   *)
(***************************************************************************)

\* C29: adjustRateLimit slows admission for good: once a rate-limited
\* failure has reduced the refill rate, no later admission of the same
\* processBatches call, in the same batch or in a later one, is paced at a
\* refill rate higher than the reduced one.
C29_RateStaysReduced ==
  (phase = "inPool" /\ reducedTo > 0) => refillRate <= reducedTo

(***************************************************************************)
(* Further properties of a task of the orchestrator (SpecTask).            *)
(***************************************************************************)

\* C30: every attempt of an operation, the first invocation and each retry
\* alike, is gated by the token bucket: each invocation of the remote
\* operation is preceded by a completed getToken of its own, so there are
\* never more invocations than completed acquires.
C30_EveryAttemptGated ==
  calls <= AcquiresCompleted


\* C31: with an on-retry observer, retry number k of one retry call goes:
\* invocation k fails, the observer is called exactly once with that error,
\* k and the computed delay, retry sleeps for that same delay, and only then
\* comes invocation k + 1.  The observer is called once per sleep, so never
\* for a success and never for the failure that ends the call.
C31_ObserverOncePerRetry ==
  rOpts.onRetry =>
    /\ observed = sleeps
    /\ observed = IF rpc = "sleeping" THEN calls ELSE calls - 1
    /\ observed > 0 => lastObserved.attempt = observed
    /\ rpc = "sleeping" =>
         /\ lastErr.id = calls
         /\ lastObserved = [of |-> lastErr.id, attempt |-> calls,
                            delay |-> lastDelay]
    /\ rpc \in {"returned", "threw"} => observed = failures - (IF rpc = "threw" THEN 1 ELSE 0)

\* The observer has seen two retries and the third invocation has ended the
\* call, by a success or by the terminal failure.
C31_Witness ==
  /\ rOpts.onRetry
  /\ rpc \in {"returned", "threw"}
  /\ calls = 3
  /\ observed = 2
  /\ lastObserved.of = 2


\* C32: with jitter disabled, the delay retry sleeps for after failure
\* number a with an error that is not classified as a rate limit is exactly
\* min(minTimeout * factor^(a - 1), maxTimeout): it never exceeds
\* maxTimeout, and (the factor being at least 1) the delay of a retry is
\* never shorter than the delay of the retry before it.
C32_BaseDelayExact ==
  /\ [](/\ rOpts.factor >= 1
        /\ (rpc = "sleeping" /\ ~rOpts.jitter /\ ~Includes429(lastErr)) =>
             /\ lastDelay = (LET raw == rOpts.minTimeout * Pow(rOpts.factor, attempt - 1)
                             IN  IF raw < rOpts.maxTimeout THEN raw
                                 ELSE rOpts.maxTimeout)
             /\ lastDelay <= rOpts.maxTimeout)
  /\ [][(/\ rpc = "calling" /\ rpc' = "sleeping" /\ sleeps >= 1
         /\ ~rOpts.jitter
         /\ ~Includes429(lastErr) /\ ~Includes429(lastErr'))
        => lastDelay' >= lastDelay]_vars

\* The third retry after three errors that are not rate limits: the
\* exponential value 4000 ms is past maxTimeout and 3000 ms is slept.
C32_Witness ==
  /\ rpc = "sleeping" /\ ~rOpts.jitter /\ ~Includes429(lastErr)
  /\ rOpts.factor = 2 /\ rOpts.maxTimeout = 3000
  /\ attempt = 3 /\ sleeps = 3
  /\ lastDelay = 3000


\* C33: a retry-after header that is malformed, or whose reading throws, is
\* not fatal: retry goes on to sleep, fails with nothing but an error of fn,
\* and the delay it sleeps for is the computed default min(2 * base,
\* maxTimeout) (within the jitter band when jitter is on), a number that is
\* not negative.
C33_MalformedHeaderFallsBack ==
  /\ rpc = "threw" => thrown = lastErr /\ thrown.id = calls
  /\ (/\ rpc = "sleeping"
      /\ Includes429(lastErr)
      /\ lastErr.hdr.kind \in {"invalid", "throws"}) =>
       LET default == Min(2 * baseDelay(attempt, rOpts), rOpts.maxTimeout)
       IN  /\ lastDelay # NaN
           /\ lastDelay >= 0
           /\ ~rOpts.jitter => lastDelay = default
           /\ rOpts.jitter => \E r \in Randoms : lastDelay = jittered(default, r)


(***************************************************************************)
(* The builder with its tally: every addition to this.error429 (by a       *)
(* shouldRetry predicate or by the tally of a batch) and every decrease    *)
(* of this.concurrency (by a tick or by an immediate adjustment) is summed *)
(* up.                                                                     *)
(***************************************************************************)
MaxAdded == 4          \* most throttling errors added to the counter in all

\* this.concurrency before an adjustment minus this.concurrency after it,
\* when that is a decrease.
decrease(before, after) == Max(0, before - after)

InitTally == InitBuilder /\ allTasks \in MainTaskCounts

\* The interval timer fires.
TallyTick ==
  /\ TimerTick
  /\ lowered' = lowered + decrease(concurrency, concurrency')
  /\ UNCHANGED <<added, failed429>>

\* A shouldRetry predicate records a 429: this.error429++
TallyRecord ==
  /\ added < MaxAdded
  /\ Record429
  /\ added' = added + 1
  /\ UNCHANGED <<lowered, failed429>>

\* A batch returns: this.error429 += rateErrors; this.adjustConcurrency()
TallyReturns(rateErrors) ==
  /\ added + rateErrors <= MaxAdded
  /\ PoolReturns(rateErrors)
  /\ added' = added + rateErrors
  /\ lowered' = lowered + decrease(concurrency, concurrency')
  /\ UNCHANGED failed429

exceptTally == <<poolVars, retryVars, mainVars, progressVars, reconVars,
                taskVars, paceVars, cleanVars>>

NextTally ==
  \/ TallyTick /\ UNCHANGED exceptTally
  \/ StopAdjusting /\ UNCHANGED <<tallyVars, exceptTally>>
  \/ TallyRecord /\ UNCHANGED exceptTally
  \/ CallProcessBatches /\ UNCHANGED <<tallyVars, exceptTally>>
  \/ \E rateErrors \in 0..MaxRateErrors :
       TallyReturns(rateErrors) /\ UNCHANGED exceptTally
  \/ PauseOver /\ UNCHANGED <<tallyVars, exceptTally>>

TallyAlone == InitTally /\ NoPool /\ NoRetry /\ NoMain /\ NoProgress /\ NoRecon
  /\ NoTask /\ NoPace

SpecTally == TallyAlone /\ [][NextTally]_vars

\* C34: whatever the interleaving of ticks and immediate adjustments, the
\* decreases of the concurrency level add up to no more than the
\* throttling errors added to the counter: every adjustment resets the
\* counter, so no error is behind two decreases.
C34_NoDoubleReduction ==
  /\ lowered <= added
  /\ lowered + error429 <= added

\* A tick and an immediate adjustment have both lowered the level, and
\* every error added has been spent on a decrease.
C34_Witness ==
  /\ lowered = 3 /\ added = 3 /\ error429 = 0
  /\ lastAdjust.trigger = "immediate"
  /\ concurrency = 1


(***************************************************************************)
(* The task of SpecTask with the tally: the remote calls that fail with a  *)
(* 429 message are counted, and so is what is added to this.error429.      *)
(***************************************************************************)
\* A remote call fails with err.
CountedRejects(err, r) ==
  /\ CallRejects(err, r)
  /\ failed429' = failed429 + (IF Includes429(err) THEN 1 ELSE 0)
  /\ added' = added + (error429' - error429)
  /\ UNCHANGED lowered

\* processBatches tallies the rejected results of the batch.
CountedTallied ==
  /\ BatchTallied
  /\ added' = added + (IF lastAdjust' # lastAdjust
                       THEN lastAdjust'.e - error429 ELSE 0)
  /\ lowered' = lowered + decrease(concurrency, concurrency')
  /\ UNCHANGED failed429

exceptCounted == <<mainVars, progressVars, reconVars, taskVars, paceVars,
                  cleanVars>>

NextCounted ==
  \/ TaskStarts /\ UNCHANGED <<tallyVars, exceptCounted>>
  \/ CallFulfils /\ UNCHANGED <<tallyVars, exceptCounted>>
  \/ \E err \in TaskErrors(calls), r \in Randoms :
       CountedRejects(err, r) /\ UNCHANGED exceptCounted
  \/ RetrySleepOver /\ UNCHANGED <<tallyVars, exceptCounted>>
  \/ TaskSettles /\ UNCHANGED <<tallyVars, exceptCounted>>
  \/ BatchPoolReturns /\ UNCHANGED <<tallyVars, exceptCounted>>
  \/ CountedTallied /\ UNCHANGED exceptCounted

SpecCounted == TaskAlone /\ [][NextCounted]_vars

\* C37: for a retry-wrapped task with the builder's retry options, every
\* remote call that fails with a 429 message is added to this.error429
\* exactly once: by the shouldRetry predicate when retry evaluates it, and
\* by the tally of processBatches when the failure was the one of the last
\* attempt, which retry rethrows without evaluating the predicate.
C37_Each429CountedOnce ==
  wrapped =>
    /\ phase = "done" => added = failed429
    /\ phase # "done" =>
         added = failed429 - (IF rpc = "threw" /\ Includes429(thrown)
                              THEN 1 ELSE 0)
    /\ (rpc = "threw" /\ Includes429(thrown)) => evals = rOpts.retries

\* The task has failed nine times with a 429 message: eight failures were
\* counted by the predicate and the ninth by the tally.
C37_Witness ==
  /\ wrapped /\ phase = "done"
  /\ rpc = "threw" /\ Includes429(thrown)
  /\ evals = 8 /\ failures = 9
  /\ failed429 = 9 /\ added = 9


(***************************************************************************)
(* cleanUniverse (MegaverseBuilder): the current map is fetched and a      *)
(* delete task made for every cell that holds an object; the tasks go      *)
(* through runWithProgress; then, up to three times, the map is fetched    *)
(* again and what is left is swept through the pool at concurrency 1.      *)
(* Every delete task is a retry(...) whose rejection the pool records as a *)
(* result, so a task either empties its cell or leaves it as it is.        *)
(***************************************************************************)
cleanAttempts == 3

\* A verification loop that goes round once more.
verifyAgainOnceMore(n) == n <= cleanAttempts + 1

\* attempt <= 3
verifyAgain(n) == n <= cleanAttempts

\* toDeleteTasks(grid) over the columns 1..n: a delete task, of the kind
\* of the object, for every cell that is not null.
RECURSIVE toDeleteTasks(_, _)
toDeleteTasks(map, n) ==
  IF n = 0 THEN <<>>
  ELSE toDeleteTasks(map, n - 1)
       \o (IF map[n] # Null THEN <<Task("delete", n, map[n].type, <<>>)>>
           ELSE <<>>)

\* cleanUniverse() has been called and awaits the first getCurrentMap.
InitClean ==
  /\ remote \in [1..GridCols -> CurrentCells]
  /\ goal = <<>> /\ seen = <<>> /\ todo = <<>> /\ nextTask = 0
  /\ reconPc = "none" /\ pass = 0 /\ allOk = TRUE /\ ran = 0
  /\ cleanPc = "fetching"
  /\ cleanAttempt = 0
  /\ fetches = 0
  /\ sweeps = 0
  /\ said = "none"
  /\ added = 0 /\ lowered = 0 /\ failed429 = 0

\* The first getCurrentMap answers: nothing to delete, or the bulk pass.
FirstFetch ==
  /\ cleanPc = "fetching"
  /\ seen' = remote
  /\ todo' = toDeleteTasks(remote, GridCols)
  /\ IF toDeleteTasks(remote, GridCols) = <<>>
     THEN /\ said' = "alreadyEmpty"
          /\ cleanPc' = "returned"
          /\ nextTask' = 0
     ELSE /\ said' = "deleting"
          /\ cleanPc' = "bulk"
          /\ nextTask' = 1
  /\ UNCHANGED <<remote, cleanAttempt, fetches, sweeps>>

\* A getCurrentMap call rejects: cleanUniverse rejects with its error.
FetchFails ==
  /\ cleanPc \in {"fetching", "verifying"}
  /\ cleanPc' = "threw"
  /\ UNCHANGED <<remote, seen, todo, nextTask, cleanAttempt, fetches, sweeps,
                 said>>

\* A task of the bulk pass settles: its delete call has emptied the cell,
\* or every attempt has failed.  After the last one runWithProgress
\* returns and the verification loop starts with attempt = 1.
BulkTask(ok) ==
  /\ cleanPc = "bulk"
  /\ remote' = IF ok THEN served(remote, callOf(todo[nextTask])) ELSE remote
  /\ nextTask' = nextTask + 1
  /\ IF nextTask = Len(todo)
     THEN cleanPc' = "verifying" /\ cleanAttempt' = 1
     ELSE UNCHANGED <<cleanPc, cleanAttempt>>
  /\ UNCHANGED <<seen, todo, fetches, sweeps, said>>

\* The getCurrentMap of the loop answers: return on an empty map, else
\* warn and hand the leftovers to the pool.
VerifyFetch ==
  /\ cleanPc = "verifying"
  /\ fetches' = fetches + 1
  /\ seen' = remote
  /\ IF toDeleteTasks(remote, GridCols) = <<>>
     THEN /\ said' = "fullyBlue"
          /\ cleanPc' = "returned"
          /\ UNCHANGED <<todo, nextTask>>
     ELSE /\ said' = "survived"
          /\ cleanPc' = "sweeping"
          /\ todo' = toDeleteTasks(remote, GridCols)
          /\ nextTask' = 1
  /\ UNCHANGED <<remote, cleanAttempt, sweeps>>

\* A task of the sweep settles.  After the last one the pool returns,
\* attempt++ and the loop goes round again, or ends with the report.
SweepTask(ok) ==
  /\ cleanPc = "sweeping"
  /\ remote' = IF ok THEN served(remote, callOf(todo[nextTask])) ELSE remote
  /\ nextTask' = nextTask + 1
  /\ IF nextTask = Len(todo)
     THEN /\ sweeps' = sweeps + 1
          /\ cleanAttempt' = cleanAttempt + 1
          /\ IF verifyAgain(cleanAttempt + 1)
             THEN cleanPc' = "verifying" /\ UNCHANGED said
             ELSE cleanPc' = "returned" /\ said' = "gaveUp"
     ELSE UNCHANGED <<sweeps, cleanAttempt, cleanPc, said>>
  /\ UNCHANGED <<seen, todo, fetches>>

exceptClean == <<poolVars, retryVars, builderVars, mainVars, progressVars,
                taskVars, paceVars, tallyVars, goal, reconPc, pass, allOk,
                ran>>

NextClean ==
  \/ FirstFetch /\ UNCHANGED exceptClean
  \/ FetchFails /\ UNCHANGED exceptClean
  \/ \E ok \in BOOLEAN : BulkTask(ok) /\ UNCHANGED exceptClean
  \/ VerifyFetch /\ UNCHANGED exceptClean
  \/ \E ok \in BOOLEAN : SweepTask(ok) /\ UNCHANGED exceptClean

CleanAlone ==
  /\ InitClean /\ NoPool /\ NoRetry /\ NoBuilder /\ NoMain /\ NoProgress
  /\ NoTask /\ clock = 0 /\ reducedTo = 0

SpecClean == CleanAlone /\ [][NextClean]_vars

\* The cells of a map that hold an object.
ObjectsOf(map) == {c \in DOMAIN map : map[c] # Null}

\* C35: cleanUniverse is bounded.  After the bulk pass it fetches the map
\* at most 3 times and sweeps at most 3 times, each sweep over the
\* leftovers of the fetch before it; it is past a fetch only when the
\* fetched map held an object, returns without a report of failure only
\* on an empty fetched map, and gives up only after the third sweep.  No
\* failure of a task makes it throw: it rejects only when a fetch does.
C35_CleanIsBounded ==
  /\ [](/\ fetches <= 3 /\ sweeps <= 3
        /\ cleanAttempt <= 4
        /\ cleanPc = "sweeping" => sweeps = fetches - 1 /\ cleanAttempt = fetches
        /\ cleanPc = "verifying" => sweeps = fetches /\ cleanAttempt = fetches + 1
        /\ cleanPc \in {"bulk", "sweeping"} =>
             /\ ObjectsOf(seen) # {}
             /\ todo = toDeleteTasks(seen, GridCols)
        /\ cleanPc = "returned" =>
             /\ said \in {"alreadyEmpty", "fullyBlue", "gaveUp"}
             /\ said = "alreadyEmpty" => ObjectsOf(seen) = {} /\ fetches = 0
             /\ said = "fullyBlue" => ObjectsOf(seen) = {} /\ sweeps = fetches - 1
             /\ said = "gaveUp" => sweeps = 3 /\ fetches = 3)
  /\ [][/\ cleanPc' = "threw" => cleanPc \in {"fetching", "verifying", "threw"}
        /\ (cleanPc \in {"bulk", "sweeping"} /\ remote' = remote) =>
             cleanPc' \in {cleanPc, "verifying", "returned"}]_vars

\* Every sweep has failed: cleanUniverse has returned after three fetches
\* and three sweeps, with the objects still there.
C35_Witness ==
  /\ cleanPc = "returned" /\ said = "gaveUp"
  /\ fetches = 3 /\ sweeps = 3
  /\ ObjectsOf(remote) = DOMAIN remote

\* C36: when cleanUniverse reports that it gave up, with the universe
\* still not empty, the remote map holds at least one object; it does not
\* report so when the last sweep has emptied the map.
C36_GaveUpMeansNotEmpty ==
  said = "gaveUp" => ObjectsOf(remote) # {}


(***************************************************************************)
(* syncWithGoal from its call of the pool on: the todo list built from the *)
(* goal map and the current map is run by runtWithConcurrencyLimit(todo,   *)
(* 1).  Task k of the pool is todo[k + 1]; a task that fulfils has been    *)
(* served by the remote service.                                           *)
(***************************************************************************)
\* The goal tokens and current cells of the maps that are fixed: a cell to
\* be left empty or to hold a red soloon, holding nothing, a polyanet or a
\* red soloon.
FixTokens == {<<"SPACE">>, <<"RED", "SOLOON">>}
FixCells == {Null, Cell(0, ""), Cell(1, "red")}

\* The state at await runtWithConcurrencyLimit(todo, 1), for the goal maps
\* and current maps that differ and give a list no longer than the pool
\* runs.
InitFix ==
  /\ goal \in [1..GridCols -> FixTokens]
  /\ remote \in [1..GridCols -> FixCells]
  /\ seen = remote
  /\ todo = todoUpTo(goal, remote, GridCols)
  /\ todo # <<>>
  /\ Len(todo) <= MaxTasks
  /\ nextTask = 1
  /\ reconPc = "fixing"
  /\ pass = 1
  /\ allOk = TRUE
  /\ ran = 0
  /\ PoolStart(Len(todo), 1)

\* The runner invokes the task it has claimed: the remote call is made.
FixStarts(w) ==
  /\ StartTask(w)
  /\ UNCHANGED reconVars

\* The call of the task settles; createFromToken of SPACE makes no call
\* and fulfils.  The API client rejects with Error objects only.
FixSettles(w, kind) ==
  /\ kind \in {"value", "error", "error429"}
  /\ Settle(w, kind)
  /\ callOf(todo[current[w] + 1]) = NoCall => kind = "value"
  /\ remote' = IF kind = "value"
               THEN served(remote, callOf(todo[current[w] + 1]))
               ELSE remote
  /\ allOk' = (allOk /\ kind = "value")
  /\ ran' = ran + 1
  /\ UNCHANGED <<goal, seen, todo, nextTask, reconPc, pass>>

\* The pool returns and with it syncWithGoal.
FixReturns ==
  /\ PoolReturn
  /\ reconPc' = "synced"
  /\ UNCHANGED <<goal, remote, seen, todo, nextTask, pass, allOk, ran>>

exceptFix == <<retryVars, builderVars, mainVars, progressVars, taskVars,
              paceVars, tallyVars, cleanVars>>

NextFix ==
  \/ ClockTick /\ UNCHANGED <<reconVars, exceptFix>>
  \/ \E w \in Runners : WakeUp(w) /\ UNCHANGED <<reconVars, exceptFix>>
  \/ \E w \in Runners : FixStarts(w) /\ UNCHANGED exceptFix
  \/ \E w \in Runners, kind \in Outcomes :
       FixSettles(w, kind) /\ UNCHANGED exceptFix
  \/ FixReturns /\ UNCHANGED exceptFix

FixAlone == InitFix /\ NoRetry /\ NoBuilder /\ NoMain /\ NoProgress /\ NoTask
  /\ NoPace

SpecFix == FixAlone /\ [][NextFix]_vars

\* The pool tasks whose call is in flight.
InFlight == {k \in started : outcome[k] = "unsettled"}

\* C38: in syncWithGoal the fix tasks run one at a time and in list
\* order: at most one call is in flight, a task is started only when all
\* tasks before it have settled, and so the delete call for a mismatched
\* occupied cell has settled before the create call for that cell starts.
C38_DeleteSettlesBeforeCreate ==
  /\ limit = 1
  /\ Cardinality(InFlight) <= 1
  /\ \A k \in started : \A j \in 0..(k - 1) : outcome[j] # "unsettled"
  /\ \A k \in 1..(Len(todo) - 1) :
       (/\ todo[k].op = "delete" /\ todo[k + 1].op = "create"
        /\ todo[k].c = todo[k + 1].c
        /\ k \in started) => outcome[k - 1] # "unsettled"
  /\ \A c \in 1..GridCols :
       (seen[c] # Null /\ ~isSame(goal[c], seen[c])) =>
         \E k \in 1..(Len(todo) - 1) :
           /\ todo[k] = Task("delete", c, seen[c].type, <<>>)
           /\ todo[k + 1] = Task("create", c, 0 - 1, goal[c])

\* The create call for a cell is in flight after the delete call for that
\* cell has been rejected.
C38_Witness ==
  /\ Len(todo) >= 2
  /\ todo[1].op = "delete" /\ todo[2].op = "create" /\ todo[1].c = todo[2].c
  /\ outcome[0] = "error"
  /\ InFlight = {1}


(***************************************************************************)
(* The builder while no throttling error is recorded and stopAdjusting is  *)
(* not called: the timer of the constructor keeps firing (setInterval),    *)
(* whatever processBatches is doing.                                       *)
(***************************************************************************)
NextClimb ==
  \/ TimerTick /\ UNCHANGED exceptBuilder
  \/ CallProcessBatches /\ UNCHANGED exceptBuilder
  \/ PoolReturns(0) /\ UNCHANGED exceptBuilder
  \/ PauseOver /\ UNCHANGED exceptBuilder

ClimbAlone ==
  /\ InitBuilder /\ allTasks \in MainTaskCounts
  /\ NoPool /\ NoRetry /\ NoMain /\ NoProgress /\ NoRecon /\ NoTask /\ NoPace

\* The interval timer fires again and again.
FairClimb == WF_vars(TimerTick /\ UNCHANGED exceptBuilder)

SpecClimb == ClimbAlone /\ [][NextClimb]_vars /\ FairClimb

\* C39: when no throttling error is recorded and the timer is not
\* stopped, and the tick keeps firing, the concurrency level reaches
\* maxConcurrency and stays there from then on.
C39_ClimbsToMax == <>[](concurrency = maxConcurrency)

\* A tick has found the level at maxConcurrency and left it there.
C39_Witness ==
  /\ concurrency = maxConcurrency
  /\ lastAdjust.trigger = "tick" /\ lastAdjust.c = maxConcurrency
  /\ lastAdjust.e = 0 /\ timerLive


(***************************************************************************)
(* The pool run when time passes, every timer fires, every runner that     *)
(* holds a token goes on and every task settles.                           *)
(***************************************************************************)
FairPool ==
  /\ WF_vars(ClockTick /\ UNCHANGED exceptPool)
  /\ \A w \in 1..MaxLimit :
       /\ WF_vars(w \in Runners /\ WakeUp(w) /\ UNCHANGED exceptPool)
       /\ WF_vars(w \in Runners /\ StartTask(w) /\ UNCHANGED exceptPool)
       /\ WF_vars(\E kind \in Outcomes :
                    w \in Runners /\ Settle(w, kind) /\ UNCHANGED exceptPool)
  /\ WF_vars(PoolReturn /\ UNCHANGED exceptPool)
  /\ WF_vars(PoolThrow /\ UNCHANGED exceptPool)

SpecPoolFair == PoolAlone /\ [][NextPool]_vars /\ FairPool

\* C40: when every task settles, a pool run with one runner or more
\* returns in the end: every runner gets its tokens, the cursor is
\* exhausted and the call returns the results.
C40_PoolReturns == <>(poolState = "returned")

====
